---------------------------- MODULE Spec2Model ----------------------------
(***************************************************************************)
(* Bundle execution and history engine of the Rust bundler.                *)
(*                                                                         *)
(* Modelled program: src/src/main.rs (the execute-bundle handler, the      *)
(* analytics handler and the shared AppState), src/src/bundler.rs          *)
(* (BundleManager::execute_bundle, the bounded bundle_history, the         *)
(* active_bundles map) and src/src/analytics.rs (record_bundle_execution,  *)
(* update_performance_metrics, get_analytics_data).                        *)
(*                                                                         *)
(* Atomic steps follow the await points of the async code: a lock          *)
(* acquisition, a sleep and an operation are separate steps, the           *)
(* synchronous code between two awaits is one step.  The critical section  *)
(* of the history write is split further (push, evict) while the write     *)
(* guard is held, so that what readers can see is decided by the lock.     *)
(*                                                                         *)
(* Clients are given by a workload, fixed in the initial state: "single"   *)
(* is one request with any settings and wallet list; "logging" is one      *)
(* plain request under any tracing level (the others run under INFO);      *)
(* "churn" is MaxBundles plain requests, some invalid, with a              *)
(* concurrent reader of the history, enough to overflow HistoryCap;        *)
(* "settings" is one request of any kind with any stealth settings;        *)
(* "analytics" is two requests and a client polling the analytics;         *)
(* "rollover" is MaxBundles requests of one kind and that client; "risk"   *)
(* and "sandwich" are clients of the risk assessor and of the sandwich     *)
(* mitigation (src/src/mev_protection.rs), which no handler calls;         *)
(* "variant" is MaxBundles calls of the execute_bundle of                  *)
(* src/src/bundle.rs, the BundleManager with a map of results.             *)
(*                                                                         *)
(* AnalyticsSpec is a second specification, of one Analytics value called  *)
(* directly by concurrent tasks, without the lock the handlers of main.rs  *)
(* put around it: its two tokio RwLocks are modelled with their queue of   *)
(* waiters, and the tasks are scheduled fairly.                            *)
(*                                                                         *)
(* Amounts and fees are integers (units of the transfer asset), f64        *)
(* quotients are exact fractions <<numerator, denominator>> in lowest      *)
(* terms, per-transaction durations and block heights are left out, a      *)
(* fresh Uuid::new_v4() is a fresh natural number.                         *)
(***************************************************************************)
EXTENDS Integers, Sequences, FiniteSets, TLC

\* ------------------------------------------------------------------ bounds
\* The capacity of bundle_history and of the analytics history.  The source
\* uses 1000 (bundler.rs:202, analytics.rs:61); the model scales it down.
HistoryCap == 2

\* The largest wallet count the handler accepts.  The source uses 1000
\* (main.rs:185); the model scales it down.
WalletLimit == 2

\* Handler tasks (concurrent HTTP requests in flight).
NumTasks == 2

\* Requests served in the "churn" workload (enough to overflow the history).
MaxBundles == 3

\* ------------------------------------------------------------- data model
None == "none"

Tasks == 1..NumTasks

Readers == {"reader"}

\* Wallet identifiers: two of at least 8 characters, one shorter.
LongA == "WalletAlpha"

LongB == "WalletBravo"

Short == "w7"

WalletPool == <<LongA, LongB, Short>>

PoolAt(i) == WalletPool[((i - 1) % Len(WalletPool)) + 1]

\* The wallet lists a client may send: every run of 0..WalletLimit+1
\* consecutive entries of the pool, taken cyclically (so the short
\* identifier comes first in some lists, last in others, and not at all in
\* others; the longest runs are one over the limit).
WalletLists ==
    { [i \in 1..n |-> PoolAt(k + i - 1)] :
        k \in 1..Len(WalletPool), n \in 0..(WalletLimit + 1) }

\* BundleConfig, bundler.rs:9-23 (token_address is carried but never read by
\* execute_bundle and is left out; slippage is in percent).
MakeConfig(ty, amt, ws, stealth, mev, rnd, rpcs) ==
    [ bundle_type       |-> ty,
      amount_per_wallet |-> amt,
      wallets           |-> ws,
      stealth_mode      |-> stealth,
      mev_protection    |-> mev,
      priority_fee      |-> 1,
      slippage          |-> 5,
      stagger_delay     |-> 100,
      randomize_order   |-> rnd,
      use_multiple_rpcs |-> rpcs,
      anti_mev_delay    |-> << >> ]

\* One request with any wallet list: a buy of a positive amount with any
\* stealth, MEV and ordering settings, or a plain buy of nothing.
SingleConfigs ==
    { MakeConfig("buy", 1, ws, st, mev, rnd, FALSE) :
        ws \in WalletLists, st \in BOOLEAN, mev \in BOOLEAN, rnd \in BOOLEAN }
    \cup { MakeConfig("buy", 0, ws, FALSE, FALSE, FALSE, FALSE) : ws \in WalletLists }

\* Many plain requests, to fill and overflow the history: one wallet, long
\* or short, and the two invalid wallet counts, none and one too many.
ChurnConfigs ==
    { MakeConfig("buy", 1, ws, FALSE, FALSE, FALSE, FALSE) :
        ws \in { <<LongA>>, <<Short>>, << >>,
                 [i \in 1..(WalletLimit + 1) |-> LongA] } }

\* The bundle kinds a request may name: the six execute_bundle dispatches on
\* (bundler.rs:121-126) and one it does not know.
RequestKinds == {"buy", "sell", "snipe", "volume", "pump", "distribute", "transfer"}

\* BundleSettings.stagger_delay is any u64 (main.rs:95): besides the 100 of
\* MakeConfig the model has no delay, the shortest, and a short odd one.
StaggerBases == {0, 1, 3}

WithStaggerDelay(cfg, base_delay) == [cfg EXCEPT !.stagger_delay = base_delay]

\* BundleSettings.priority_fee (main.rs:93): besides the 1 of MakeConfig.
HigherFee == 2

WithPriorityFee(cfg, fee) == [cfg EXCEPT !.priority_fee = fee]

\* BundleSettings.anti_mev_delay (main.rs:99): Some(ms) is <<ms>>, None is
\* << >>, which is what MakeConfig has.
DelayOverride == 40

WithAntiMevDelay(cfg, ms) == [cfg EXCEPT !.anti_mev_delay = <<ms>>]

\* One request over two long wallets: of every kind with and without
\* stealth_mode and mev_protection, or a buy with every combination of the
\* four stealth settings, or a stealth buy with another stagger delay, or a
\* plain snipe or sell with another priority fee, or a buy with a delay
\* override.
SettingsConfigs ==
    { MakeConfig(ty, 1, <<LongA, LongB>>, st, mev, FALSE, FALSE) :
        ty \in RequestKinds, st \in BOOLEAN, mev \in BOOLEAN }
    \cup { MakeConfig("buy", 1, <<LongA, LongB>>, st, mev, rnd, rpcs) :
             st \in BOOLEAN, mev \in BOOLEAN, rnd \in BOOLEAN, rpcs \in BOOLEAN }
    \cup { WithStaggerDelay(MakeConfig("buy", 1, <<LongA, LongB>>, TRUE, FALSE, FALSE, FALSE),
                            base_delay) : base_delay \in StaggerBases }
    \cup { WithPriorityFee(MakeConfig(ty, 1, <<LongA, LongB>>, FALSE, FALSE, FALSE, FALSE),
                           HigherFee) : ty \in {"snipe", "sell"} }
    \cup { WithAntiMevDelay(MakeConfig("buy", 1, <<LongA, LongB>>, FALSE, mev, FALSE, FALSE),
                            DelayOverride) : mev \in BOOLEAN }

\* One plain request with any wallet list (served under any tracing level).
LoggingConfigs ==
    { MakeConfig("buy", 1, ws, FALSE, FALSE, FALSE, FALSE) : ws \in WalletLists }

\* Two requests over one long wallet, while a client polls the analytics: a
\* plain buy, a transfer with stealth_mode, mev_protection and
\* randomize_order, or a transfer with randomize_order and
\* use_multiple_rpcs but without stealth_mode.
AnalyticsConfigs ==
    { MakeConfig("buy", 1, <<LongA>>, FALSE, FALSE, FALSE, FALSE),
      MakeConfig("transfer", 1, <<LongA>>, TRUE, TRUE, TRUE, FALSE),
      MakeConfig("transfer", 1, <<LongA>>, FALSE, FALSE, TRUE, TRUE) }

\* Many requests of one kind that never fails, to overflow the analytics
\* history while a client polls the analytics.
RolloverConfigs == { MakeConfig("transfer", 1, <<LongA>>, FALSE, FALSE, FALSE, FALSE) }

Workloads == {"single", "logging", "churn", "settings", "analytics", "rollover",
              "risk", "sandwich", "variant"}

ConfigsOf(w) ==
    CASE w = "churn"     -> ChurnConfigs
      [] w = "settings"  -> SettingsConfigs
      [] w = "analytics" -> AnalyticsConfigs
      [] w = "logging"   -> LoggingConfigs
      [] w = "rollover"  -> RolloverConfigs
      [] OTHER           -> SingleConfigs

RequestsOf(w) ==
    CASE w = "churn"     -> MaxBundles
      [] w = "rollover"  -> MaxBundles
      [] w = "analytics" -> 2
      [] w = "risk"      -> 0
      [] w = "sandwich"  -> 0
      [] w = "variant"   -> 0
      [] OTHER           -> 1

ReadersOf(w) == IF w = "churn" THEN Readers ELSE {}

Analysts == {"analyst"}

AnalystsOf(w) == IF w \in {"analytics", "rollover"} THEN Analysts ELSE {}

\* bundler.rs:180  start_time.elapsed().as_millis(): what the clock shows
\* when the loop is over, in milliseconds; the model draws one or two values.
ExecutionTimesOf(w) == IF w \in {"analytics", "rollover"} THEN {10, 30} ELSE {10}

\* tracing levels, most to least verbose: info!, warn! and error! are
\* evaluated (arguments included) only when the level admits them.
TracingLevels == {"INFO", "WARN", "ERROR"}

InfoEnabled(level) == level = "INFO"

WarnEnabled(level) == level \in {"INFO", "WARN"}


\* ---------------------------------------------------------------- helpers
\* An f64 quotient n/d (d > 0) as a fraction in lowest terms.
RECURSIVE GCD(_, _)
GCD(a, b) == IF b = 0 THEN a ELSE GCD(b, a % b)

Ratio(n, d) == IF n = 0 THEN <<0, 1>> ELSE <<n \div GCD(n, d), d \div GCD(n, d)>>

Zero == Ratio(0, 1)

\* f64 +, * and comparison on such fractions.
RatioAdd(a, b) == Ratio(a[1] * b[2] + b[1] * a[2], a[2] * b[2])

RatioMul(a, b) == Ratio(a[1] * b[1], a[2] * b[2])

RatioLeq(a, b) == a[1] * b[2] <= b[1] * a[2]

\* f64::min
RatioMin(a, b) == IF RatioLeq(a, b) THEN a ELSE b

\* main.rs:185  req.wallets.is_empty() || req.wallets.len() > 1000
WalletCountInvalid_NoUpperLimit(wallets) == Len(wallets) = 0

WalletCountInvalid(wallets) == Len(wallets) = 0 \/ Len(wallets) > WalletLimit

\* All orders slice::shuffle can produce: the permutations of s.
Shuffles(s) ==
    LET n == Len(s)
        bij == { p \in [1..n -> 1..n] : \A i, j \in 1..n : p[i] = p[j] => i = j }
    IN  { [i \in 1..n |-> s[p[i]]] : p \in bij }

\* bundler.rs:89-102  the execution order of a config.
ExecutionOrders_AlwaysShuffles(cfg) == Shuffles(cfg.wallets)

ExecutionOrders(cfg) ==
    IF cfg.randomize_order THEN Shuffles(cfg.wallets) ELSE {cfg.wallets}

\* bundler.rs:90-102  the StealthMetrics accumulator at the start of the loop.
InitialMetrics(cfg) ==
    [ randomization_applied |-> cfg.randomize_order,
      multiple_rpcs_used    |-> cfg.use_multiple_rpcs,
      timing_randomized     |-> cfg.stealth_mode,
      anti_mev_delays       |-> <<>>,
      stealth_score         |-> 0 ]

\* bundler.rs:220-228  gen_range(lo..hi) per kind; the model draws the two
\* ends of the range, lo and hi - 1.
MevDelayRange_BuyAndSellSwapped(bundle_type) ==
    CASE bundle_type = "snipe"  -> <<25, 75>>
      [] bundle_type = "buy"    -> <<150, 400>>
      [] bundle_type = "sell"   -> <<100, 300>>
      [] bundle_type = "volume" -> <<50, 150>>
      [] OTHER                  -> <<100, 200>>

MevDelayRange(bundle_type) ==
    CASE bundle_type = "snipe"  -> <<25, 75>>
      [] bundle_type = "buy"    -> <<100, 300>>
      [] bundle_type = "sell"   -> <<150, 400>>
      [] bundle_type = "volume" -> <<50, 150>>
      [] OTHER                  -> <<100, 200>>

calculate_mev_protection_delay(bundle_type) ==
    { MevDelayRange(bundle_type)[1], MevDelayRange(bundle_type)[2] - 1 }

\* bundler.rs:170-172  (base_delay as f64 * gen_range(0.5..1.5)) as u64: the
\* product is truncated, so any whole number from the whole part of base/2
\* up to the largest below 3*base/2 (0 for no base delay); the model draws
\* the two ends.
StaggerDelayRange_UpToTwice(base_delay) == <<base_delay \div 2, 2 * base_delay + 1>>

StaggerDelayRange(base_delay) ==
    IF base_delay = 0 THEN <<0, 0>>
    ELSE <<base_delay \div 2, (3 * base_delay - 1) \div 2>>

StaggerDelays(base_delay) ==
    { StaggerDelayRange(base_delay)[1], StaggerDelayRange(base_delay)[2] }

KnownTypes == {"buy", "sell", "snipe", "volume", "pump", "distribute"}

\* bundler.rs:120-128 and 230-344  what one operation can return: Ok with
\* (signature, amount, fee) or Err; an unknown kind falls through to Ok.
OperationOutcomes_SnipeFeeNotTripled(cfg) ==
    LET ok  == [ok |-> TRUE, amount |-> cfg.amount_per_wallet, fee |-> cfg.priority_fee]
        err == [ok |-> FALSE, amount |-> 0, fee |-> 0]
    IN  IF cfg.bundle_type \in KnownTypes THEN {ok, err} ELSE {ok}

OperationOutcomes(cfg) ==
    LET fee == IF cfg.bundle_type = "snipe" THEN cfg.priority_fee * 3
               ELSE cfg.priority_fee
        ok  == [ok |-> TRUE, amount |-> cfg.amount_per_wallet, fee |-> fee]
        err == [ok |-> FALSE, amount |-> 0, fee |-> 0]
    IN  IF cfg.bundle_type \in KnownTypes THEN {ok, err} ELSE {ok}

\* bundler.rs:120-128  what the executor is handed with &config: the amount
\* and the slippage tolerance of the request.
ExecutorParams(cfg) ==
    [amount |-> Ratio(cfg.amount_per_wallet, 1), slippage |-> Ratio(cfg.slippage, 1)]

\* mev_protection.rs:117-136  apply_sandwich_protection (sandwich_protection
\* is on by default, mev_protection.rs:24): slippage times 1.2, at most 50;
\* amount times gen_range(0.95..1.0), of which the model draws 0.95 and 0.99.
apply_sandwich_protection_NoCap(params) ==
    { [amount   |-> Ratio(params.amount[1] * factor, params.amount[2] * 100),
       slippage |-> Ratio(params.slippage[1] * 12, params.slippage[2] * 10)] :
        factor \in {95, 99} }

apply_sandwich_protection(params) ==
    LET raised   == Ratio(params.slippage[1] * 12, params.slippage[2] * 10)
        slippage == IF raised[1] < 50 * raised[2] THEN raised ELSE Ratio(50, 1)
    IN  { [amount   |-> Ratio(params.amount[1] * factor, params.amount[2] * 100),
           slippage |-> slippage] : factor \in {95, 99} }

\* bundler.rs:132-166  the TransactionResult pushed for an outcome.
MakeTransactionResult_FailedKeepsFee(cfg, wallet, outcome) ==
    IF outcome.ok
    THEN [ wallet |-> wallet, signature |-> "some", status |-> "confirmed",
           amount |-> outcome.amount, fee |-> outcome.fee, error |-> None,
           mev_protected |-> cfg.mev_protection ]
    ELSE [ wallet |-> wallet, signature |-> None, status |-> "failed",
           amount |-> cfg.amount_per_wallet, fee |-> cfg.priority_fee,
           error |-> "some", mev_protected |-> cfg.mev_protection ]

MakeTransactionResult(cfg, wallet, outcome) ==
    IF outcome.ok
    THEN [ wallet |-> wallet, signature |-> "some", status |-> "confirmed",
           amount |-> outcome.amount, fee |-> outcome.fee, error |-> None,
           mev_protected |-> cfg.mev_protection ]
    ELSE [ wallet |-> wallet, signature |-> None, status |-> "failed",
           amount |-> cfg.amount_per_wallet, fee |-> 0, error |-> "some",
           mev_protected |-> cfg.mev_protection ]

\* bundler.rs:149 and 164  &wallet_address[..8] panics when the identifier
\* has fewer than 8 bytes; the slice is an argument of info! (success) or
\* warn! (failure) and is evaluated only when that level is enabled.
PrefixSlicePanics(wallet) == Len(wallet) < 8

LogPanics(level, wallet, outcome) ==
    /\ PrefixSlicePanics(wallet)
    /\ IF outcome.ok THEN InfoEnabled(level) ELSE WarnEnabled(level)

\* bundler.rs:346-358
calculate_stealth_score_WeightsSwapped(cfg, metrics) ==
    LET score == (IF cfg.stealth_mode THEN 20 ELSE 0)
               + (IF cfg.mev_protection THEN 25 ELSE 0)
               + (IF metrics.randomization_applied THEN 10 ELSE 0)
               + (IF metrics.multiple_rpcs_used THEN 15 ELSE 0)
               + (IF metrics.timing_randomized THEN 15 ELSE 0)
               + (IF metrics.anti_mev_delays # <<>> THEN 15 ELSE 0)
    IN  IF score < 100 THEN score ELSE 100

calculate_stealth_score(cfg, metrics) ==
    LET score == (IF cfg.stealth_mode THEN 20 ELSE 0)
               + (IF cfg.mev_protection THEN 25 ELSE 0)
               + (IF metrics.randomization_applied THEN 15 ELSE 0)
               + (IF metrics.multiple_rpcs_used THEN 10 ELSE 0)
               + (IF metrics.timing_randomized THEN 15 ELSE 0)
               + (IF metrics.anti_mev_delays # <<>> THEN 15 ELSE 0)
    IN  IF score < 100 THEN score ELSE 100

\* bundler.rs:199-204 (and analytics.rs:58-63): which entry goes when the
\* history has grown past its capacity.
EvictOldest_RemovesNewest(history) == SubSeq(history, 1, Len(history) - 1)

EvictOldest(history) == Tail(history)

\* bundler.rs:202  history.len() > 1000
OverCapacity_AtCapacity(history) == Len(history) >= HistoryCap

OverCapacity(history) == Len(history) > HistoryCap

\* ------------------------------------------------------ analytics helpers
\* HashMap<String, f64> (analytics.rs:41): new, insert, get(..).unwrap_or(..)
EmptyMap == [k \in {} |-> Zero]

MapInsert(map, key, value) ==
    [k \in (DOMAIN map) \cup {key} |-> IF k = key THEN value ELSE map[k]]

MapGetOr(map, key, default) == IF key \in DOMAIN map THEN map[key] ELSE default

\* iter().sum()
RECURSIVE Sum(_)
Sum(numbers) == IF numbers = << >> THEN 0 ELSE numbers[1] + Sum(Tail(numbers))

TotalSuccess(history) == Sum([i \in 1..Len(history) |-> history[i].success_count])

TotalAttempts_CountsSuccessesOnly(history) ==
    Sum([i \in 1..Len(history) |-> history[i].success_count])

TotalAttempts(history) == Sum([i \in 1..Len(history) |-> history[i].total_transactions])

TotalVolume(history) == Sum([i \in 1..Len(history) |-> history[i].total_cost])

\* analytics.rs:83-87 and 109-113
SuccessRate(history) ==
    IF TotalAttempts(history) > 0
    THEN Ratio(TotalSuccess(history) * 100, TotalAttempts(history))
    ELSE Zero

\* analytics.rs:76  (current_avg * (history_len - 1) + execution_time) / history_len
NewAverage(current_avg, history_len, execution_time) ==
    Ratio(current_avg[1] * (history_len - 1) + execution_time * current_avg[2],
          current_avg[2] * history_len)

\* analytics.rs:144-173
calculate_stealth_usage_CountsSwapped(history) ==
    LET with_metrics == { i \in 1..Len(history) : history[i].stealth_metrics # << >> }
        bundles_with_stealth == Cardinality(with_metrics)
        scores == [i \in 1..Len(history) |->
                      IF i \in with_metrics
                      THEN history[i].stealth_metrics[1].stealth_score ELSE 0]
    IN  [ bundles_with_stealth  |-> bundles_with_stealth,
          average_stealth_score |-> IF bundles_with_stealth > 0
                                    THEN Ratio(Sum(scores), bundles_with_stealth)
                                    ELSE Zero,
          randomization_usage   |->
              Cardinality({ i \in with_metrics :
                              history[i].stealth_metrics[1].multiple_rpcs_used }),
          multi_rpc_usage       |->
              Cardinality({ i \in with_metrics :
                              history[i].stealth_metrics[1].randomization_applied }) ]

calculate_stealth_usage(history) ==
    LET with_metrics == { i \in 1..Len(history) : history[i].stealth_metrics # << >> }
        bundles_with_stealth == Cardinality(with_metrics)
        scores == [i \in 1..Len(history) |->
                      IF i \in with_metrics
                      THEN history[i].stealth_metrics[1].stealth_score ELSE 0]
    IN  [ bundles_with_stealth  |-> bundles_with_stealth,
          average_stealth_score |-> IF bundles_with_stealth > 0
                                    THEN Ratio(Sum(scores), bundles_with_stealth)
                                    ELSE Zero,
          randomization_usage   |->
              Cardinality({ i \in with_metrics :
                              history[i].stealth_metrics[1].randomization_applied }),
          multi_rpc_usage       |->
              Cardinality({ i \in with_metrics :
                              history[i].stealth_metrics[1].multiple_rpcs_used }) ]

\* analytics.rs:175-192  (x as f64 * 0.12) as u32 truncates.
calculate_mev_protection_stats(history) ==
    LET protected_transactions ==
            Sum([i \in 1..Len(history) |->
                    IF history[i].mev_protection_enabled
                    THEN history[i].total_transactions ELSE 0])
    IN  [ protected_transactions     |-> protected_transactions,
          mev_attacks_blocked        |-> (protected_transactions * 12) \div 100,
          average_protection_score   |-> Ratio(177, 2),
          frontrun_attempts_detected |-> (protected_transactions * 6) \div 100 ]

\* analytics.rs:117-121
PopularBundleTypes(history) ==
    [ ty \in { history[i].bundle_type : i \in 1..Len(history) } |->
        Cardinality({ i \in 1..Len(history) : history[i].bundle_type = ty }) ]

\* analytics.rs:95-142  the AnalyticsData of a history and the metrics map.
get_analytics_data(history, metrics) ==
    [ total_bundles           |-> Len(history),
      successful_transactions |-> TotalSuccess(history),
      failed_transactions     |-> TotalAttempts(history) - TotalSuccess(history),
      total_volume            |-> TotalVolume(history),
      total_fees              |-> Ratio(TotalVolume(history) * 2, 100),
      total_profit_loss       |-> Ratio(TotalVolume(history) * 5 - TotalVolume(history) * 2, 100),
      success_rate            |-> SuccessRate(history),
      average_execution_time  |-> MapGetOr(metrics, "avg_execution_time", Zero),
      popular_bundle_types    |-> PopularBundleTypes(history),
      stealth_usage           |-> calculate_stealth_usage(history),
      mev_protection_stats    |-> calculate_mev_protection_stats(history) ]

BundleIds(history) == [i \in 1..Len(history) |-> history[i].bundle_id]

\* The three tokio RwLocks of the analytics (main.rs:29, analytics.rs:40-41):
\* whether the write guard is out and how many read guards are.
Unlocked == [writer |-> FALSE, readers |-> 0]

RwWritable(lock) == ~lock.writer /\ lock.readers = 0

RwReadable(lock) == ~lock.writer

\* main.rs:213  state.analytics.write().await: the lock once the guard is
\* granted (no value while it is not).
RecordGuard_TakesReadGuard(lock) ==
    IF RwReadable(lock) THEN {[lock EXCEPT !.readers = @ + 1]} ELSE {}

RecordGuard(lock) ==
    IF RwWritable(lock) THEN {[lock EXCEPT !.writer = TRUE]} ELSE {}

\* main.rs:217  the handler's guard on the analytics is dropped.
DropRecordGuard(lock) ==
    IF lock.writer THEN [lock EXCEPT !.writer = FALSE]
    ELSE [lock EXCEPT !.readers = @ - 1]

\* main.rs:229  state.analytics.read().await
SnapshotGuard_IgnoresWriter(lock) == {[lock EXCEPT !.readers = @ + 1]}

SnapshotGuard(lock) ==
    IF RwReadable(lock) THEN {[lock EXCEPT !.readers = @ + 1]} ELSE {}

\* -------------------------------------------------- risk assessor helpers
\* The assets a risk is asked for, and the amounts: below and above the
\* threshold of mev_protection.rs:97.
Tokens == {"TokenT", "TokenU"}

RiskAmounts == {1, 11}

\* The f64 values a caller may store as a signal: update_network_stats
\* (mev_protection.rs:138-143) takes any and checks none.
SignalValues == { Ratio(-1, 1), Zero, Ratio(1, 2), Ratio(1, 1), Ratio(3, 1) }

\* The keys detect_frontrunning_risk looks up (mev_protection.rs:102, 107);
\* the model stores a popularity for one of the tokens only.
PopularityKey(token_address) == <<"popularity", token_address>>

CongestionKey == <<"network_congestion">>

SignalKeys == { PopularityKey("TokenT"), CongestionKey }

\* mev_protection.rs:112  gen_range(0.0..0.1): the model draws 0 and 0.099.
RiskNoise == { Zero, Ratio(99, 1000) }

\* mev_protection.rs:94-114  the risk score of an asset and an amount under
\* the stored signals, for one draw of the noise.
RiskScore(network_stats, token_address, amount, noise) ==
    LET base == IF amount > 10 THEN Ratio(3, 10) ELSE Zero
        pop  == IF PopularityKey(token_address) \in DOMAIN network_stats
                THEN RatioMul(network_stats[PopularityKey(token_address)], Ratio(2, 10))
                ELSE Zero
        cong == IF CongestionKey \in DOMAIN network_stats
                THEN RatioMul(network_stats[CongestionKey], Ratio(4, 10))
                ELSE Zero
    IN  RatioMin(RatioAdd(RatioAdd(RatioAdd(base, pop), cong), noise), Ratio(1, 1))

\* The parameters apply_sandwich_protection may be handed: any two f64
\* under the keys "slippage" and "amount", of which the model takes a
\* slippage below 0, from 0 to the cap of 50 and above it, and an amount
\* below 0, of 0 and above 0.
SandwichParams ==
    { [amount |-> Ratio(a, 1), slippage |-> Ratio(sl, 1)] :
        a \in {-1, 0, 1, 20}, sl \in {-5, 0, 5, 45, 50, 80} }

\* ------------------------------------------- the BundleManager of bundle.rs
\* bundle.rs:15-31  BundleRequest with its BundleSettings (token_address is
\* never read; stagger_delay, stealth_mode and mev_protection decide only
\* how long the loop sleeps and are left out).
MakeRequest(ty, amt, ws) ==
    [ bundle_type       |-> ty,
      amount_per_wallet |-> amt,
      wallets           |-> ws,
      priority_fee      |-> 1,
      slippage          |-> 5 ]

\* The requests execute_bundle is called with: a buy for one wallet, a sell
\* for two, a kind execute_transaction does not support, a wallet
\* identifier of fewer than 8 characters, and the invalid ones: no wallet,
\* an amount of 0 or below 0, both.
VariantRequests ==
    { MakeRequest("buy", 1, <<LongA>>),
      MakeRequest("sell", 1, <<LongA, LongB>>),
      MakeRequest("transfer", 1, <<LongA>>),
      MakeRequest("buy", 1, <<Short>>),
      MakeRequest("buy", 1, << >>),
      MakeRequest("buy", 0, <<LongA>>),
      MakeRequest("buy", -1, <<LongA>>),
      MakeRequest("sell", 0, << >>) }

\* bundle.rs:82-88  the two checks execute_bundle makes before the loop.
RequestInvalid_IgnoresAmount(request) == request.wallets = << >>

RequestInvalid(request) ==
    \/ request.wallets = << >>
    \/ request.amount_per_wallet <= 0

\* bundle.rs:204-320  execute_transaction: the wallet's keypair may be
\* missing and a simulated transaction may fail; a kind other than the four
\* it dispatches on is an error.  A sell moves amount * (1 - slippage / 100).
SupportedTypes == {"buy", "sell", "distribute", "volume"}

execute_transaction(request) ==
    LET amount == Ratio(request.amount_per_wallet, 1)
        moved  == IF request.bundle_type = "sell"
                  THEN RatioMul(amount, Ratio(100 - request.slippage, 100))
                  ELSE amount
        ok  == [ok |-> TRUE, amount |-> moved, fee |-> Ratio(request.priority_fee, 1)]
        err == [ok |-> FALSE, amount |-> Zero, fee |-> Zero]
    IN  IF request.bundle_type \in SupportedTypes THEN {ok, err} ELSE {err}

\* bundle.rs:123-174  the TransactionResult of an outcome (signature, error
\* text and execution time are left out).
VariantTransactionResult(request, wallet, outcome) ==
    IF outcome.ok
    THEN [ wallet |-> wallet, status |-> "confirmed",
           amount |-> outcome.amount, fee |-> outcome.fee ]
    ELSE [ wallet |-> wallet, status |-> "failed",
           amount |-> Ratio(request.amount_per_wallet, 1), fee |-> Zero ]

\* bundle.rs:90-175  the loop over request.wallets from the wallet at
\* position index (counted from 1) on: every way it can go, as the
\* transactions pushed, the successes and the cost counted, the operations
\* attempted, and whether a log line panicked on slicing the identifier
\* (bundle.rs:158 and 172).
RECURSIVE VariantLoop(_, _, _, _, _, _)
VariantLoop(level, request, index, transactions, success_count, total_cost) ==
    IF index > Len(request.wallets)
    THEN { [ panicked |-> FALSE, attempted |-> index - 1,
             transactions |-> transactions,
             success_count |-> success_count, total_cost |-> total_cost ] }
    ELSE LET wallet == request.wallets[index]
         IN  UNION {
               LET pushed == Append(transactions,
                                    VariantTransactionResult(request, wallet, outcome))
                   count  == IF outcome.ok THEN success_count + 1 ELSE success_count
                   cost   == IF outcome.ok
                             THEN RatioAdd(total_cost, RatioAdd(outcome.amount, outcome.fee))
                             ELSE total_cost
               IN  IF LogPanics(level, wallet, outcome)
                   THEN { [ panicked |-> TRUE, attempted |-> index,
                            transactions |-> pushed,
                            success_count |-> count, total_cost |-> cost ] }
                   ELSE VariantLoop(level, request, index + 1, pushed, count, cost)
               : outcome \in execute_transaction(request) }

\* bundle.rs:178-187  the BundleResult (execution time and timestamp are
\* left out).
VariantBundleResult(bundle_id, request, run) ==
    [ bundle_id          |-> bundle_id,
      bundle_type        |-> request.bundle_type,
      success_count      |-> run.success_count,
      total_transactions |-> Len(request.wallets),
      transactions       |-> run.transactions,
      total_cost         |-> run.total_cost ]

\* bundle.rs:190-194  bundles.insert(bundle_id.clone(), bundle_result.clone())
StoreResult_EvictsOldest(store, bundle_result) ==
    LET kept == IF Cardinality(DOMAIN store) < HistoryCap THEN DOMAIN store
                ELSE (DOMAIN store) \ { CHOOSE id \in DOMAIN store :
                                          \A other \in DOMAIN store : id <= other }
    IN  [ key \in kept \cup {bundle_result.bundle_id} |->
            IF key = bundle_result.bundle_id THEN bundle_result ELSE store[key] ]

StoreResult(store, bundle_result) ==
    [ key \in (DOMAIN store) \cup {bundle_result.bundle_id} |->
        IF key = bundle_result.bundle_id THEN bundle_result ELSE store[key] ]

\* bundle.rs:326-329  get_bundle: Some(result) is <<result>>, None is << >>.
get_bundle(store, bundle_id) ==
    IF bundle_id \in DOMAIN store THEN <<store[bundle_id]>> ELSE << >>

\* bundle.rs:331-334  get_all_bundles: the values of the map, in whatever
\* order the HashMap iterates; every vector it may return.
get_all_bundles(store) ==
    { [i \in 1..Cardinality(DOMAIN store) |-> store[order[i]]] :
        order \in { o \in [1..Cardinality(DOMAIN store) -> DOMAIN store] :
                       \A i, j \in DOMAIN o : i # j => o[i] # o[j] } }

\* ------------------------------------------ the Analytics called directly
\* The tasks that call one Analytics value: two that record bundles and
\* one that asks for the analytics data.
Recorders == {"recorder_a", "recorder_b"}

Getters == {"getter"}

Callers == Recorders \cup Getters

\* bundler.rs:182-194  the BundleResult a recorder passes: a plain buy for
\* one wallet that succeeded.
DirectResult(bundle_id) ==
    LET cfg == MakeConfig("buy", 1, <<LongA>>, FALSE, FALSE, FALSE, FALSE)
    IN  [ bundle_id              |-> bundle_id,
          bundle_type            |-> cfg.bundle_type,
          success_count          |-> 1,
          total_transactions     |-> 1,
          total_cost             |-> 2,
          execution_time         |-> 10,
          transactions           |-> << MakeTransactionResult(cfg, LongA,
                                          [ok |-> TRUE, amount |-> 1, fee |-> 1]) >>,
          stealth_metrics        |-> << >>,
          mev_protection_enabled |-> FALSE ]

\* tokio::sync::RwLock (analytics.rs:40-41) with its waiters: the task
\* holding the write guard (<<task>>, or << >>), the tasks holding a read
\* guard, and the queue of the requests not yet granted, oldest first.
\* The lock is fair: a request is granted when it is the oldest and the
\* guards that are out admit it, so that a read() behind a queued write()
\* waits.
FreeLock == [writer |-> << >>, readers |-> {}, queue |-> << >>]

Grantable(lock, request) ==
    IF request.write THEN lock.writer = << >> /\ lock.readers = {}
    ELSE lock.writer = << >>

Grant(lock, request) ==
    IF request.write THEN [lock EXCEPT !.writer = <<request.who>>]
    ELSE [lock EXCEPT !.readers = @ \cup {request.who}]

RECURSIVE Wake(_)
Wake(lock) ==
    IF lock.queue # << >> /\ Grantable(lock, Head(lock.queue))
    THEN Wake(Grant([lock EXCEPT !.queue = Tail(@)], Head(lock.queue)))
    ELSE lock

\* read().await and write().await up to the point where the task is granted
\* the guard or parked in the queue.
Acquire(lock, who, write) ==
    Wake([lock EXCEPT !.queue = Append(@, [who |-> who, write |-> write])])

\* The guard is out: the task goes on.
HoldsWrite(lock, who) == lock.writer = <<who>>

HoldsRead(lock, who) == who \in lock.readers

\* A guard is dropped and the oldest waiters it admits are granted.
Release(lock, who) ==
    Wake([lock EXCEPT !.writer = IF @ = <<who>> THEN << >> ELSE @,
                      !.readers = @ \ {who}])

IdleCaller == [pc |-> "idle", bundle_result |-> << >>, current_avg |-> Zero,
               answer |-> << >>]

\* ------------------------------------------------------------------ state
VARIABLES
    workload,            \* which clients exist (fixed by Init)
    tracing_level,       \* the subscriber's level (fixed by Init)
    requests,            \* requests received so far
    next_uuid,           \* the next fresh bundle id
    bundle_manager_lock, \* AppState.bundle_manager: 0, or the task holding write
    active_bundles,      \* BundleManager.active_bundles: id -> config
    history_lock,        \* the RwLock of BundleManager.bundle_history
    bundle_history,      \* BundleManager.bundle_history
    analytics_history,   \* Analytics.bundle_history
    local,               \* per handler task: position and locals
    reader,              \* per reader: position and the cloned history
    analytics_lock,      \* the RwLock of AppState.analytics
    analytics_rw,        \* the RwLocks of Analytics.bundle_history and
                         \* Analytics.performance_metrics
    performance_metrics, \* Analytics.performance_metrics
    analyst,             \* per analytics client: position, what it has read,
                         \* its last two answers
    records_started,     \* history variable: calls of record_bundle_execution
    metrics_folded,      \* history variable: the bundle ids folded into
                         \* avg_execution_time, in order
    network_stats,       \* MevProtection.network_stats
    risk_scores,         \* history variable: the last answer of
                         \* detect_frontrunning_risk and what it was asked
    sandwich_protection, \* MevProtectionConfig.sandwich_protection
    sandwich_calls,      \* history variable: the last call of
                         \* apply_sandwich_protection, what it was handed
                         \* and what it left
    bundles,             \* bundle.rs BundleManager.bundles: id -> BundleResult
    variant_calls,       \* history variable: the last call of the
                         \* execute_bundle of bundle.rs: its request and how
                         \* it ended, the operations it attempted, the store
                         \* before it
    variant_returned,    \* history variable: the BundleResults the
                         \* execute_bundle of bundle.rs has returned
    caller,              \* AnalyticsSpec: where each direct caller of the
                         \* Analytics is, and what it holds
    direct_rw,           \* AnalyticsSpec: the RwLocks of bundle_history and
                         \* of performance_metrics, with their waiters
    committed,           \* history variable: bundle ids in push order
    calls                \* history variable: one record per execute_bundle call:
                         \* its config, the operations attempted, the trace of
                         \* its loop, the parameters its executor was handed,
                         \* its StealthMetrics once scored, how often
                         \* its id was inserted and removed, how it ended

analytics_side == << analytics_lock, analytics_rw, performance_metrics,
                     analyst, records_started, metrics_folded >>

sandwich_side == << sandwich_protection, sandwich_calls >>

variant_side == << bundles, variant_calls, variant_returned >>

direct_side == << caller, direct_rw >>

mev_side == << network_stats, risk_scores, sandwich_side, variant_side, direct_side >>

vars == << workload, tracing_level, requests, next_uuid, bundle_manager_lock,
           active_bundles, history_lock, bundle_history, analytics_history,
           local, reader, committed, calls, analytics_side, mev_side >>

NoConfig == MakeConfig("", 0, <<>>, FALSE, FALSE, FALSE, FALSE)

IdleLocal ==
    [ pc |-> "idle", config |-> NoConfig, bundle_id |-> 0,
      execution_order |-> <<>>, index |-> 0, transactions |-> <<>>,
      success_count |-> 0, total_cost |-> 0,
      stealth_metrics |-> InitialMetrics(NoConfig),
      execution_time |-> 0, bundle_result |-> <<>>, current_avg |-> Zero,
      response |-> None ]

IdleReader == [pc |-> "idle", snapshot |-> <<>>]

\* An analytics client: the history it reads through its guard, and its
\* last two answers, each with what the history variables showed then.
IdleAnalyst ==
    [ pc |-> "idle", history |-> <<>>, started |-> 0,
      last |-> <<>>, previous |-> <<>> ]

\* The state after construction: nothing requested, stored or locked.
Constructed ==
    /\ requests = 0
    /\ next_uuid = 1
    /\ bundle_manager_lock = 0
    /\ active_bundles = << >>
    /\ history_lock = [writer |-> 0, readers |-> {}]
    /\ bundle_history = << >>
    /\ analytics_history = << >>
    /\ local = [t \in Tasks |-> IdleLocal]
    /\ reader = [r \in Readers |-> IdleReader]
    /\ committed = << >>
    /\ calls = << >>
    /\ analytics_lock = Unlocked
    /\ analytics_rw = [bundle_history |-> Unlocked, performance_metrics |-> Unlocked]
    /\ performance_metrics = EmptyMap
    /\ analyst = [a \in Analysts |-> IdleAnalyst]
    /\ records_started = 0
    /\ metrics_folded = << >>
    /\ network_stats = EmptyMap
    /\ risk_scores = << >>
    /\ sandwich_protection = TRUE
    /\ sandwich_calls = << >>
    /\ bundles = << >>
    /\ variant_calls = << >>
    /\ variant_returned = {}
    /\ caller = [c \in Callers |-> IdleCaller]
    /\ direct_rw = [bundle_history |-> FreeLock, performance_metrics |-> FreeLock]

Init ==
    /\ workload \in Workloads
    /\ tracing_level \in (IF workload = "logging" THEN TracingLevels ELSE {"INFO"})
    /\ Constructed


\* ---------------------------------------------------------------- actions
SetLocal(t, rec) == local' = [local EXCEPT ![t] = rec]

\* What the history variable calls[id].trace records of the loop, in the
\* order it happened: a delay that has been slept ("mev_delay",
\* "stagger_delay", with its length), the executor being invoked for the
\* wallet at a position ("invoke") and its TransactionResult being pushed
\* ("result").  Positions count from 0, as enumerate() does.
Event(kind, index, ms) == [kind |-> kind, index |-> index, ms |-> ms]

\* main.rs:181-204  the handler receives a request, validates the wallet
\* count and builds the BundleConfig; an invalid count is answered at once.
HandlerReceive(t) ==
    /\ local[t].pc = "idle"
    /\ requests < RequestsOf(workload)
    /\ \E cfg \in ConfigsOf(workload) :
          SetLocal(t, [IdleLocal EXCEPT
              !.config = cfg,
              !.pc = IF WalletCountInvalid(cfg.wallets) THEN "rejected"
                     ELSE "wait_manager",
              !.response = IF WalletCountInvalid(cfg.wallets)
                           THEN "invalid_wallet_count" ELSE None])
    /\ requests' = requests + 1
    /\ UNCHANGED << mev_side, analytics_side, workload, tracing_level, next_uuid, bundle_manager_lock,
                    active_bundles, history_lock, bundle_history,
                    analytics_history, reader, committed, calls >>

\* main.rs:186-188  the error response has been sent; the task is free.
HandlerRejected(t) ==
    /\ local[t].pc = "rejected"
    /\ SetLocal(t, IdleLocal)
    /\ UNCHANGED << mev_side, analytics_side, workload, tracing_level, requests, next_uuid,
                    bundle_manager_lock, active_bundles, history_lock,
                    bundle_history, analytics_history, reader, committed,
                    calls >>

\* main.rs:206-208, bundler.rs:76-80  the handler takes the write lock of
\* AppState.bundle_manager and enters execute_bundle, which draws its id.
EnterExecuteBundle(t) ==
    /\ local[t].pc = "wait_manager"
    /\ bundle_manager_lock = 0
    /\ bundle_manager_lock' = t
    /\ next_uuid' = next_uuid + 1
    /\ SetLocal(t, [local[t] EXCEPT !.pc = "store_active",
                                    !.bundle_id = next_uuid])
    /\ calls' = Append(calls, [ config |-> local[t].config, attempted |-> <<>>,
                                trace |-> <<>>, received |-> <<>>,
                                metrics |-> <<>>,
                                inserts |-> 0, removes |-> 0,
                                outcome |-> "running", result |-> <<>> ])
    /\ UNCHANGED << mev_side, analytics_side, workload, tracing_level, requests, active_bundles,
                    history_lock, bundle_history, analytics_history, reader,
                    committed >>

\* bundler.rs:82-107  store the active bundle, choose the execution order and
\* start the accumulators.
StoreActiveBundle(t) ==
    LET me == local[t] IN
    /\ me.pc = "store_active"
    /\ active_bundles' = (me.bundle_id :> me.config) @@ active_bundles
    /\ \E order \in ExecutionOrders(me.config) :
          SetLocal(t, [me EXCEPT !.pc = "loop_head",
                                 !.execution_order = order,
                                 !.stealth_metrics = InitialMetrics(me.config),
                                 !.index = 0])
    /\ calls' = [calls EXCEPT ![me.bundle_id].inserts = @ + 1]
    /\ UNCHANGED << mev_side, analytics_side, workload, tracing_level, requests, next_uuid,
                    bundle_manager_lock, history_lock, bundle_history,
                    analytics_history, reader, committed >>

\* bundler.rs:109-117  the head of one iteration: with MEV protection a delay
\* is drawn, recorded and slept; otherwise the operation starts.
LoopIteration(t) ==
    LET me == local[t] IN
    /\ me.pc = "loop_head"
    /\ me.index < Len(me.execution_order)
    /\ IF me.config.mev_protection
       THEN /\ \E mev_delay \in calculate_mev_protection_delay(me.config.bundle_type) :
                 SetLocal(t, [me EXCEPT
                     !.pc = "mev_sleep",
                     !.stealth_metrics.anti_mev_delays = Append(@, mev_delay)])
              /\ UNCHANGED calls
       ELSE /\ SetLocal(t, [me EXCEPT !.pc = "operation"])
            /\ calls' = [calls EXCEPT
                  ![me.bundle_id].trace = Append(@, Event("invoke", me.index, 0)),
                  ![me.bundle_id].received = Append(@, ExecutorParams(me.config))]
    /\ UNCHANGED << mev_side, analytics_side, workload, tracing_level, requests, next_uuid,
                    bundle_manager_lock, active_bundles, history_lock,
                    bundle_history, analytics_history, reader, committed >>

\* bundler.rs:116-128  the MEV delay (the one just pushed) has elapsed and
\* the operation starts.
MevDelayElapsed(t) ==
    LET me     == local[t]
        delays == me.stealth_metrics.anti_mev_delays
    IN
    /\ me.pc = "mev_sleep"
    /\ SetLocal(t, [me EXCEPT !.pc = "operation"])
    /\ calls' = [calls EXCEPT
          ![me.bundle_id].trace =
              @ \o << Event("mev_delay", me.index, delays[Len(delays)]),
                      Event("invoke", me.index, 0) >>,
          ![me.bundle_id].received = Append(@, ExecutorParams(me.config))]
    /\ UNCHANGED << mev_side, analytics_side, workload, tracing_level, requests, next_uuid,
                    bundle_manager_lock, active_bundles, history_lock,
                    bundle_history, analytics_history, reader, committed >>

\* bundler.rs:169  config.stealth_mode && index < execution_order.len() - 1
StaggerApplies_IgnoresStealthMode(cfg, index, order) == index < Len(order) - 1

StaggerApplies_SkipsLastGap(cfg, index, order) ==
    cfg.stealth_mode /\ index < Len(order) - 2

StaggerApplies(cfg, index, order) == cfg.stealth_mode /\ index < Len(order) - 1

\* bundler.rs:137 and 152  transactions.push(TransactionResult {..})
PushTransaction_AtFront(transactions, tx) == <<tx>> \o transactions

PushTransaction_DropsResult(transactions, tx) == transactions

PushTransaction(transactions, tx) == Append(transactions, tx)

\* bundler.rs:106 and 135  total_cost starts at 0.0 and grows by
\* amount + fee in the Ok arm only.
AccumulateCost_CountsFailures(total_cost, cfg, outcome) ==
    IF outcome.ok THEN total_cost + outcome.amount + outcome.fee
    ELSE total_cost + cfg.amount_per_wallet

AccumulateCost(total_cost, cfg, outcome) ==
    IF outcome.ok THEN total_cost + outcome.amount + outcome.fee ELSE total_cost

\* bundler.rs:119-174  the operation returns; its TransactionResult is
\* pushed and logged.  The log line slices the wallet identifier and may
\* panic: the call unwinds, dropping the handler's guard on bundle_manager.
\* Otherwise the stagger delay is slept or the next iteration starts.
OperationReturns(t) ==
    LET me     == local[t]
        wallet == me.execution_order[me.index + 1]
    IN
    /\ me.pc = "operation"
    /\ \E outcome \in OperationOutcomes(me.config) :
         LET pushed == [me EXCEPT
                 !.transactions = PushTransaction(@, MakeTransactionResult(me.config, wallet, outcome)),
                 !.success_count = IF outcome.ok THEN @ + 1 ELSE @,
                 !.total_cost = AccumulateCost(@, me.config, outcome)]
         IN
         IF LogPanics(tracing_level, wallet, outcome)
         THEN /\ SetLocal(t, [pushed EXCEPT !.pc = "panicked"])
              /\ bundle_manager_lock' = 0
              /\ calls' = [calls EXCEPT ![me.bundle_id].attempted = Append(@, [wallet |-> wallet, ok |-> outcome.ok]),
                                        ![me.bundle_id].trace = Append(@, Event("result", me.index, 0)),
                                        ![me.bundle_id].outcome = "panicked"]
         ELSE /\ SetLocal(t, [pushed EXCEPT
                     !.pc = IF StaggerApplies(me.config, me.index, me.execution_order)
                            THEN "stagger_sleep" ELSE "loop_head",
                     !.index = IF StaggerApplies(me.config, me.index, me.execution_order)
                               THEN @ ELSE @ + 1])
              /\ calls' = [calls EXCEPT ![me.bundle_id].attempted = Append(@, [wallet |-> wallet, ok |-> outcome.ok]),
                                        ![me.bundle_id].trace = Append(@, Event("result", me.index, 0))]
              /\ UNCHANGED bundle_manager_lock
    /\ UNCHANGED << mev_side, analytics_side, workload, tracing_level, requests, next_uuid,
                    active_bundles, history_lock, bundle_history,
                    analytics_history, reader, committed >>

\* main.rs:181-223  a handler that panicked is gone with its connection;
\* the server keeps accepting, so the slot serves a new connection.
ConnectionClosed(t) ==
    /\ local[t].pc = "panicked"
    /\ SetLocal(t, IdleLocal)
    /\ UNCHANGED << mev_side, analytics_side, workload, tracing_level, requests, next_uuid,
                    bundle_manager_lock, active_bundles, history_lock,
                    bundle_history, analytics_history, reader, committed,
                    calls >>

\* bundler.rs:170-173  the stagger delay has elapsed (its length, drawn at
\* line 171, is chosen here, where the sleep it sets ends).
StaggerDelayElapsed(t) ==
    LET me == local[t] IN
    /\ me.pc = "stagger_sleep"
    /\ SetLocal(t, [me EXCEPT !.pc = "loop_head", !.index = @ + 1])
    /\ \E final_delay \in StaggerDelays(me.config.stagger_delay) :
          calls' = [calls EXCEPT ![me.bundle_id].trace =
                       Append(@, Event("stagger_delay", me.index, final_delay))]
    /\ UNCHANGED << mev_side, analytics_side, workload, tracing_level, requests, next_uuid,
                    bundle_manager_lock, active_bundles, history_lock,
                    bundle_history, analytics_history, reader, committed >>

\* bundler.rs:186  total_transactions: config.wallets.len() as u32
TotalTransactions_CountsSuccesses(me) == me.success_count

TotalTransactions(me) == Len(me.config.wallets)

\* bundler.rs:178  stealth_metrics.stealth_score = calculate_stealth_score(..)
\* bundler.rs:182-194  the BundleResult assembled after the loop.
\* bundler.rs:190  if config.stealth_mode { Some(stealth_metrics) } else { None }
ReportedMetrics_WhenAnySettingIsOn(cfg, metrics) ==
    IF cfg.stealth_mode \/ cfg.mev_protection \/ cfg.randomize_order
       \/ cfg.use_multiple_rpcs
    THEN <<metrics>> ELSE <<>>

ReportedMetrics(cfg, metrics) == IF cfg.stealth_mode THEN <<metrics>> ELSE <<>>

ScoredMetrics(me) ==
    [me.stealth_metrics EXCEPT
        !.stealth_score = calculate_stealth_score(me.config, me.stealth_metrics)]

MakeBundleResult(me) ==
    LET metrics == ScoredMetrics(me)
    IN  [ bundle_id              |-> me.bundle_id,
          bundle_type            |-> me.config.bundle_type,
          success_count          |-> me.success_count,
          total_transactions     |-> TotalTransactions(me),
          total_cost             |-> me.total_cost,
          execution_time         |-> me.execution_time,
          transactions           |-> me.transactions,
          stealth_metrics        |-> ReportedMetrics(me.config, metrics),
          mev_protection_enabled |-> me.config.mev_protection ]

\* bundler.rs:177-194  the loop is over: score and result are computed.
AssembleResult(t) ==
    LET me == local[t] IN
    /\ me.pc = "loop_head"
    /\ me.index >= Len(me.execution_order)
    /\ \E total_execution_time \in ExecutionTimesOf(workload) :
          LET done == [me EXCEPT !.execution_time = total_execution_time]
          IN  SetLocal(t, [done EXCEPT !.pc = "history_lock",
                                       !.bundle_result = <<MakeBundleResult(done)>>])
    /\ calls' = [calls EXCEPT ![me.bundle_id].metrics = <<ScoredMetrics(me)>>]
    /\ UNCHANGED << mev_side, analytics_side, workload, tracing_level, requests, next_uuid,
                    bundle_manager_lock, active_bundles, history_lock,
                    bundle_history, analytics_history, reader, committed >>


\* tokio::sync::RwLock: write() is granted when nobody holds the lock,
\* read() when no writer holds it (bundler.rs:198 and bundler.rs:370).
WriteGranted(lock) == lock.writer = 0 /\ lock.readers = {}

ReadGranted_IgnoresWriter(lock) == TRUE

ReadGranted(lock) == lock.writer = 0

\* bundler.rs:198  let mut history = self.bundle_history.write().await
HistoryWriteLock_RemovesMarkerFirst(t) ==
    /\ local[t].pc = "history_lock"
    /\ WriteGranted(history_lock)
    /\ history_lock' = [history_lock EXCEPT !.writer = t]
    /\ active_bundles' = [id \in (DOMAIN active_bundles) \ {local[t].bundle_id} |->
                            active_bundles[id]]
    /\ SetLocal(t, [local[t] EXCEPT !.pc = "history_push"])
    /\ UNCHANGED << mev_side, analytics_side, workload, tracing_level, requests, next_uuid,
                    bundle_manager_lock, bundle_history,
                    analytics_history, reader, committed, calls >>

HistoryWriteLock(t) ==
    /\ local[t].pc = "history_lock"
    /\ WriteGranted(history_lock)
    /\ history_lock' = [history_lock EXCEPT !.writer = t]
    /\ SetLocal(t, [local[t] EXCEPT !.pc = "history_push"])
    /\ UNCHANGED << mev_side, analytics_side, workload, tracing_level, requests, next_uuid,
                    bundle_manager_lock, active_bundles, bundle_history,
                    analytics_history, reader, committed, calls >>

\* bundler.rs:199  history.push(bundle_result.clone())
HistoryPush(t) ==
    LET me == local[t] IN
    /\ me.pc = "history_push"
    /\ bundle_history' = Append(bundle_history, me.bundle_result[1])
    /\ committed' = Append(committed, me.bundle_id)
    /\ SetLocal(t, [me EXCEPT !.pc = "history_evict"])
    /\ UNCHANGED << mev_side, analytics_side, workload, tracing_level, requests, next_uuid,
                    bundle_manager_lock, active_bundles, history_lock,
                    analytics_history, reader, calls >>

\* bundler.rs:201-205  evict when over capacity, then drop the write guard.
HistoryEvict(t) ==
    /\ local[t].pc = "history_evict"
    /\ bundle_history' = IF OverCapacity(bundle_history)
                         THEN EvictOldest(bundle_history) ELSE bundle_history
    /\ history_lock' = [history_lock EXCEPT !.writer = 0]
    /\ SetLocal(t, [local[t] EXCEPT !.pc = "remove_active"])
    /\ UNCHANGED << mev_side, analytics_side, workload, tracing_level, requests, next_uuid,
                    bundle_manager_lock, active_bundles, analytics_history,
                    reader, committed, calls >>

\* HashMap::remove
MapRemove(map, key) == [k \in (DOMAIN map) \ {key} |-> map[k]]

\* bundler.rs:207-216  remove the id from active_bundles and return
\* Ok(bundle_result) to the handler, which goes on to the analytics.
RemoveActiveBundle(t) ==
    LET me == local[t] IN
    /\ me.pc = "remove_active"
    /\ active_bundles' = MapRemove(active_bundles, me.bundle_id)
    /\ calls' = [calls EXCEPT
          ![me.bundle_id].removes = IF me.bundle_id \in DOMAIN active_bundles
                                    THEN @ + 1 ELSE @,
          ![me.bundle_id].outcome = "returned",
          ![me.bundle_id].result = me.bundle_result]
    /\ SetLocal(t, [me EXCEPT !.pc = "record_analytics"])
    /\ UNCHANGED << mev_side, analytics_side, workload, tracing_level, requests, next_uuid,
                    bundle_manager_lock, history_lock, bundle_history,
                    analytics_history, reader, committed >>

\* analytics.rs:55-64  push the result, keep only the last 1000.
RecordHistory_NeverEvicts(history, result) == Append(history, result)

RecordHistory_KeepsFirst(history, result) ==
    LET pushed == Append(history, result)
    IN  IF OverCapacity(pushed) THEN SubSeq(pushed, 1, Len(pushed) - 1) ELSE pushed

RecordHistory(history, result) ==
    LET pushed == Append(history, result)
    IN  IF OverCapacity(pushed) THEN EvictOldest(pushed) ELSE pushed

\* main.rs:209-214  on Ok the handler takes its guard on the analytics and
\* calls record_bundle_execution.
AnalyticsWriteLock(t) ==
    /\ local[t].pc = "record_analytics"
    /\ analytics_lock' \in RecordGuard(analytics_lock)
    /\ records_started' = records_started + 1
    /\ SetLocal(t, [local[t] EXCEPT !.pc = "analytics_push"])
    /\ UNCHANGED << mev_side, workload, tracing_level, requests, next_uuid,
                    bundle_manager_lock, active_bundles, history_lock,
                    bundle_history, analytics_history, reader, committed,
                    calls, analytics_rw, performance_metrics, analyst,
                    metrics_folded >>

\* analytics.rs:55-64  under the write guard of the analytics history: push
\* the result, keep only the last 1000.
RecordBundleExecution(t) ==
    LET me == local[t] IN
    /\ me.pc = "analytics_push"
    /\ RwWritable(analytics_rw.bundle_history)
    /\ analytics_history' = RecordHistory(analytics_history, me.bundle_result[1])
    /\ SetLocal(t, [me EXCEPT !.pc = "metrics_lock"])
    /\ UNCHANGED << mev_side, analytics_side, workload, tracing_level, requests,
                    next_uuid, bundle_manager_lock, active_bundles,
                    history_lock, bundle_history, reader, committed, calls >>

\* analytics.rs:71-74  update_performance_metrics takes the write guard of
\* the metrics and reads the current average.
MetricsWriteLock(t) ==
    LET me == local[t] IN
    /\ me.pc = "metrics_lock"
    /\ RwWritable(analytics_rw.performance_metrics)
    /\ analytics_rw' = [analytics_rw EXCEPT !.performance_metrics.writer = TRUE]
    /\ SetLocal(t, [me EXCEPT
          !.pc = "metrics_average",
          !.current_avg = MapGetOr(performance_metrics, "avg_execution_time", Zero)])
    /\ UNCHANGED << mev_side, workload, tracing_level, requests, next_uuid,
                    bundle_manager_lock, active_bundles, history_lock,
                    bundle_history, analytics_history, reader, committed,
                    calls, analytics_lock, performance_metrics, analyst,
                    records_started, metrics_folded >>

\* analytics.rs:75-77  the length of the history is read under a read guard
\* of its own, and the new average inserted.
UpdateAverage(t) ==
    LET me == local[t] IN
    /\ me.pc = "metrics_average"
    /\ RwReadable(analytics_rw.bundle_history)
    /\ performance_metrics' =
          MapInsert(performance_metrics, "avg_execution_time",
                    NewAverage(me.current_avg, Len(analytics_history),
                               me.bundle_result[1].execution_time))
    /\ metrics_folded' = Append(metrics_folded, me.bundle_id)
    /\ SetLocal(t, [me EXCEPT !.pc = "metrics_totals"])
    /\ UNCHANGED << mev_side, workload, tracing_level, requests, next_uuid,
                    bundle_manager_lock, active_bundles, history_lock,
                    bundle_history, analytics_history, reader, committed,
                    calls, analytics_lock, analytics_rw, analyst,
                    records_started >>

\* analytics.rs:79-93, main.rs:216-217  under a second read guard of the
\* history the success rate and the volume are inserted; then the guards
\* are dropped and the handler answers, which drops its guards on the
\* analytics and on bundle_manager.
HandlerRecordAndRespond(t) ==
    LET me == local[t] IN
    /\ me.pc = "metrics_totals"
    /\ RwReadable(analytics_rw.bundle_history)
    /\ performance_metrics' =
          MapInsert(MapInsert(performance_metrics, "success_rate",
                              SuccessRate(analytics_history)),
                    "total_volume", Ratio(TotalVolume(analytics_history), 1))
    /\ analytics_rw' = [analytics_rw EXCEPT !.performance_metrics.writer = FALSE]
    /\ analytics_lock' = DropRecordGuard(analytics_lock)
    /\ bundle_manager_lock' = 0
    /\ SetLocal(t, IdleLocal)
    /\ UNCHANGED << mev_side, workload, tracing_level, requests, next_uuid,
                    active_bundles, history_lock, bundle_history,
                    analytics_history, reader, committed, calls, analyst,
                    records_started, metrics_folded >>

\* main.rs:226-229  the analytics handler takes its read guard.
GetAnalytics(a) ==
    /\ a \in AnalystsOf(workload)
    /\ analyst[a].pc = "idle"
    /\ analytics_lock' \in SnapshotGuard(analytics_lock)
    /\ analyst' = [analyst EXCEPT ![a].pc = "read_history",
                                  ![a].started = records_started]
    /\ UNCHANGED << mev_side, workload, tracing_level, requests, next_uuid,
                    bundle_manager_lock, active_bundles, history_lock,
                    bundle_history, analytics_history, local, reader,
                    committed, calls, analytics_rw, performance_metrics,
                    records_started, metrics_folded >>

\* analytics.rs:96  let history = self.bundle_history.read().await
SnapshotHistory(a) ==
    /\ analyst[a].pc = "read_history"
    /\ RwReadable(analytics_rw.bundle_history)
    /\ analytics_rw' = [analytics_rw EXCEPT !.bundle_history.readers = @ + 1]
    /\ analyst' = [analyst EXCEPT ![a].pc = "read_metrics",
                                  ![a].history = analytics_history]
    /\ UNCHANGED << mev_side, workload, tracing_level, requests, next_uuid,
                    bundle_manager_lock, active_bundles, history_lock,
                    bundle_history, analytics_history, local, reader,
                    committed, calls, analytics_lock, performance_metrics,
                    records_started, metrics_folded >>

\* analytics.rs:97-142, main.rs:230-232  with the read guard of the metrics
\* the AnalyticsData is computed and answered; all three guards are dropped.
SnapshotMetricsAndRespond(a) ==
    LET me == analyst[a]
        answer == [ data    |-> get_analytics_data(me.history, performance_metrics),
                    started |-> me.started,
                    counted |-> BundleIds(me.history),
                    folded  |-> metrics_folded ]
    IN
    /\ me.pc = "read_metrics"
    /\ RwReadable(analytics_rw.performance_metrics)
    /\ analytics_rw' = [analytics_rw EXCEPT !.bundle_history.readers = @ - 1]
    /\ analytics_lock' = [analytics_lock EXCEPT !.readers = @ - 1]
    /\ analyst' = [analyst EXCEPT ![a] = [IdleAnalyst EXCEPT
                                            !.last = <<answer>>,
                                            !.previous = me.last]]
    /\ UNCHANGED << mev_side, workload, tracing_level, requests, next_uuid,
                    bundle_manager_lock, active_bundles, history_lock,
                    bundle_history, analytics_history, local, reader,
                    committed, calls, performance_metrics, records_started,
                    metrics_folded >>

\* bundler.rs:369-371  get_bundle_history takes the read lock and clones.
GetBundleHistory(r) ==
    /\ r \in ReadersOf(workload)
    /\ reader[r].pc = "idle"
    /\ ReadGranted(history_lock)
    /\ history_lock' = [history_lock EXCEPT !.readers = @ \cup {r}]
    /\ reader' = [reader EXCEPT ![r] = [pc |-> "cloned", snapshot |-> bundle_history]]
    /\ UNCHANGED << mev_side, analytics_side, workload, tracing_level, requests, next_uuid,
                    bundle_manager_lock, active_bundles, bundle_history,
                    analytics_history, local, committed, calls >>

\* bundler.rs:372  the clone is returned and the read guard dropped.
GetBundleHistoryReturn(r) ==
    /\ reader[r].pc = "cloned"
    /\ history_lock' = [history_lock EXCEPT !.readers = @ \ {r}]
    /\ reader' = [reader EXCEPT ![r] = IdleReader]
    /\ UNCHANGED << mev_side, analytics_side, workload, tracing_level, requests, next_uuid,
                    bundle_manager_lock, active_bundles, bundle_history,
                    analytics_history, local, committed, calls >>

\* mev_protection.rs:138-143  update_network_stats with a map of one entry:
\* under the write guard the value is inserted as it came.
UpdateNetworkStats(key, value) ==
    /\ workload = "risk"
    /\ network_stats' = MapInsert(network_stats, key, value)
    /\ UNCHANGED << workload, tracing_level, requests, next_uuid,
                    bundle_manager_lock, active_bundles, history_lock,
                    bundle_history, analytics_history, local, reader,
                    committed, calls, analytics_side, risk_scores, sandwich_side,
                    variant_side, direct_side >>

\* mev_protection.rs:89-115  detect_frontrunning_risk, under the read guard.
DetectFrontrunningRisk(token_address, amount) ==
    /\ workload = "risk"
    /\ \E noise \in RiskNoise :
          risk_scores' = << [ token_address |-> token_address, amount |-> amount,
                              risk_score |-> RiskScore(network_stats, token_address,
                                                       amount, noise) ] >>
    /\ UNCHANGED << workload, tracing_level, requests, next_uuid,
                    bundle_manager_lock, active_bundles, history_lock,
                    bundle_history, analytics_history, local, reader,
                    committed, calls, analytics_side, network_stats, sandwich_side,
                    variant_side, direct_side >>

\* What the handlers, the readers and the analytics clients work on.
server_side == << tracing_level, requests, next_uuid, bundle_manager_lock,
                 active_bundles, history_lock, bundle_history,
                 analytics_history, local, reader, committed, calls,
                 analytics_side >>

\* mev_protection.rs:216-220  update_config, of which the model varies the
\* sandwich_protection flag.
UpdateConfig(flag) ==
    /\ workload = "sandwich"
    /\ sandwich_protection' = flag
    /\ UNCHANGED << workload, server_side, network_stats, risk_scores, sandwich_calls,
                    variant_side, direct_side >>

\* mev_protection.rs:117-136  apply_sandwich_protection on a map of
\* parameters: left alone when the flag is off, adjusted in place when on.
ApplySandwichProtection(params) ==
    /\ workload = "sandwich"
    /\ \E adjusted \in (IF sandwich_protection
                         THEN apply_sandwich_protection(params) ELSE {params}) :
          sandwich_calls' = << [ enabled  |-> sandwich_protection,
                                 params   |-> params,
                                 adjusted |-> adjusted ] >>
    /\ UNCHANGED << workload, server_side, network_stats, risk_scores,
                    sandwich_protection, variant_side, direct_side >>

\* What the execute_bundle of bundle.rs leaves alone.
not_variant_side == << tracing_level, requests, bundle_manager_lock, active_bundles,
                      history_lock, bundle_history, analytics_history, local,
                      reader, committed, calls, analytics_side, network_stats,
                      risk_scores, sandwich_side, direct_side >>

\* bundle.rs:69-201  execute_bundle of the BundleManager with a map of
\* results: a fresh id, the two checks, the loop, the insert, the return.
\* A panic in the loop unwinds the call before the insert.
VariantExecuteBundle(request) ==
    /\ workload = "variant"
    /\ next_uuid <= MaxBundles
    /\ next_uuid' = next_uuid + 1
    /\ IF RequestInvalid(request)
       THEN /\ variant_calls' = << [ request |-> request, ended |-> "error",
                                     attempted |-> 0, before |-> bundles ] >>
            /\ UNCHANGED << bundles, variant_returned >>
       ELSE \E run \in VariantLoop(tracing_level, request, 1, << >>, 0, Zero) :
              LET bundle_result == VariantBundleResult(next_uuid, request, run)
              IN  IF run.panicked
                  THEN /\ variant_calls' = << [ request |-> request, ended |-> "panic",
                                                attempted |-> run.attempted,
                                                before |-> bundles ] >>
                       /\ UNCHANGED << bundles, variant_returned >>
                  ELSE /\ bundles' = StoreResult(bundles, bundle_result)
                       /\ variant_returned' = variant_returned \cup {bundle_result}
                       /\ variant_calls' = << [ request |-> request, ended |-> "ok",
                                                attempted |-> run.attempted,
                                                before |-> bundles ] >>
    /\ UNCHANGED << workload, not_variant_side >>

Next ==
    \/ \E t \in Tasks :
          \/ HandlerReceive(t)
          \/ HandlerRejected(t)
          \/ EnterExecuteBundle(t)
          \/ StoreActiveBundle(t)
          \/ LoopIteration(t)
          \/ MevDelayElapsed(t)
          \/ OperationReturns(t)
          \/ StaggerDelayElapsed(t)
          \/ ConnectionClosed(t)
          \/ AssembleResult(t)
          \/ HistoryWriteLock(t)
          \/ HistoryPush(t)
          \/ HistoryEvict(t)
          \/ RemoveActiveBundle(t)
          \/ AnalyticsWriteLock(t)
          \/ RecordBundleExecution(t)
          \/ MetricsWriteLock(t)
          \/ UpdateAverage(t)
          \/ HandlerRecordAndRespond(t)
    \/ \E r \in Readers :
          \/ GetBundleHistory(r)
          \/ GetBundleHistoryReturn(r)
    \/ \E a \in Analysts :
          \/ GetAnalytics(a)
          \/ SnapshotHistory(a)
          \/ SnapshotMetricsAndRespond(a)
    \/ \E key \in SignalKeys, value \in SignalValues : UpdateNetworkStats(key, value)
    \/ \E token_address \in Tokens, amount \in RiskAmounts :
          DetectFrontrunningRisk(token_address, amount)
    \/ \E flag \in BOOLEAN : UpdateConfig(flag)
    \/ \E params \in SandwichParams : ApplySandwichProtection(params)
    \/ \E request \in VariantRequests : VariantExecuteBundle(request)

Spec == Init /\ [][Next]_vars

\* -------------------------------------- the Analytics called directly
SetCaller(c, rec) == caller' = [caller EXCEPT ![c] = rec]

\* What a direct call of the Analytics leaves alone.
not_direct_side == << workload, tracing_level, requests, next_uuid,
                     bundle_manager_lock, active_bundles, history_lock,
                     bundle_history, local, reader, committed, calls,
                     analytics_lock, analytics_rw, analyst, metrics_folded,
                     network_stats, risk_scores, sandwich_side, variant_side >>

\* analytics.rs:52-57  record_bundle_execution is called and asks for the
\* write guard of the history.
DirectRecord(c) ==
    /\ c \in Recorders
    /\ caller[c].pc = "idle"
    /\ records_started < MaxBundles
    /\ records_started' = records_started + 1
    /\ direct_rw' = [direct_rw EXCEPT
          !.bundle_history = Acquire(@, c, TRUE)]
    /\ SetCaller(c, [caller[c] EXCEPT
          !.pc = "history_write",
          !.bundle_result = <<DirectResult(records_started + 1)>>])
    /\ UNCHANGED << not_direct_side, analytics_history, performance_metrics >>

\* analytics.rs:57-71  with the write guard: push, keep the last 1000, drop
\* the guard; update_performance_metrics asks for the write guard of the
\* metrics.
DirectPush(c) ==
    LET me == caller[c] IN
    /\ me.pc = "history_write"
    /\ HoldsWrite(direct_rw.bundle_history, c)
    /\ analytics_history' = RecordHistory(analytics_history, me.bundle_result[1])
    /\ direct_rw' = [direct_rw EXCEPT
          !.bundle_history = Release(@, c),
          !.performance_metrics = Acquire(@, c, TRUE)]
    /\ SetCaller(c, [me EXCEPT !.pc = "metrics_write"])
    /\ UNCHANGED << not_direct_side, performance_metrics, records_started >>

\* analytics.rs:71-75  with the write guard of the metrics: the current
\* average is read, and a read guard of the history is asked for.
DirectMetrics(c) ==
    LET me == caller[c] IN
    /\ me.pc = "metrics_write"
    /\ HoldsWrite(direct_rw.performance_metrics, c)
    /\ direct_rw' = [direct_rw EXCEPT !.bundle_history = Acquire(@, c, FALSE)]
    /\ SetCaller(c, [me EXCEPT
          !.pc = "history_len",
          !.current_avg = MapGetOr(performance_metrics, "avg_execution_time", Zero)])
    /\ UNCHANGED << not_direct_side, analytics_history, performance_metrics,
                    records_started >>

\* analytics.rs:75-80  with that read guard: the length is read and the
\* guard dropped, the new average inserted; a second read guard of the
\* history is asked for.
DirectAverage(c) ==
    LET me == caller[c] IN
    /\ me.pc = "history_len"
    /\ HoldsRead(direct_rw.bundle_history, c)
    /\ performance_metrics' =
          MapInsert(performance_metrics, "avg_execution_time",
                    NewAverage(me.current_avg, Len(analytics_history),
                               me.bundle_result[1].execution_time))
    /\ direct_rw' = [direct_rw EXCEPT
          !.bundle_history = Acquire(Release(@, c), c, FALSE)]
    /\ SetCaller(c, [me EXCEPT !.pc = "history_totals"])
    /\ UNCHANGED << not_direct_side, analytics_history, records_started >>

\* analytics.rs:80-93 and 67-68  with the second read guard: the success
\* rate and the volume are inserted; both guards are dropped and
\* record_bundle_execution returns.
DirectTotals(c) ==
    LET me == caller[c] IN
    /\ me.pc = "history_totals"
    /\ HoldsRead(direct_rw.bundle_history, c)
    /\ performance_metrics' =
          MapInsert(MapInsert(performance_metrics, "success_rate",
                              SuccessRate(analytics_history)),
                    "total_volume", Ratio(TotalVolume(analytics_history), 1))
    /\ direct_rw' = [direct_rw EXCEPT
          !.bundle_history = Release(@, c),
          !.performance_metrics = Release(@, c)]
    /\ SetCaller(c, IdleCaller)
    /\ UNCHANGED << not_direct_side, analytics_history, records_started >>

\* analytics.rs:95-96  get_analytics_data is called and asks for a read
\* guard of the history.
DirectGet(c) ==
    /\ c \in Getters
    /\ caller[c].pc = "idle"
    /\ direct_rw' = [direct_rw EXCEPT !.bundle_history = Acquire(@, c, FALSE)]
    /\ SetCaller(c, [caller[c] EXCEPT !.pc = "read_history"])
    /\ UNCHANGED << not_direct_side, analytics_history, performance_metrics,
                    records_started >>

\* analytics.rs:96-97  with the read guard of the history, a read guard of
\* the metrics is asked for.
DirectReadHistory(c) ==
    /\ caller[c].pc = "read_history"
    /\ HoldsRead(direct_rw.bundle_history, c)
    /\ direct_rw' = [direct_rw EXCEPT !.performance_metrics = Acquire(@, c, FALSE)]
    /\ SetCaller(c, [caller[c] EXCEPT !.pc = "read_metrics"])
    /\ UNCHANGED << not_direct_side, analytics_history, performance_metrics,
                    records_started >>

\* analytics.rs:97-142  with both read guards: the AnalyticsData is
\* computed and returned, the guards dropped.
DirectAnswer(c) ==
    /\ caller[c].pc = "read_metrics"
    /\ HoldsRead(direct_rw.performance_metrics, c)
    /\ direct_rw' = [direct_rw EXCEPT
          !.bundle_history = Release(@, c),
          !.performance_metrics = Release(@, c)]
    /\ SetCaller(c, [IdleCaller EXCEPT
          !.answer = <<get_analytics_data(analytics_history, performance_metrics)>>])
    /\ UNCHANGED << not_direct_side, analytics_history, performance_metrics,
                    records_started >>

\* The steps of a call that has begun.
DirectProgress(c) ==
    \/ DirectPush(c)
    \/ DirectMetrics(c)
    \/ DirectAverage(c)
    \/ DirectTotals(c)
    \/ DirectReadHistory(c)
    \/ DirectAnswer(c)

DirectInit ==
    /\ workload = "direct"
    /\ tracing_level = "INFO"
    /\ Constructed

DirectNext ==
    \E c \in Callers :
        \/ DirectRecord(c)
        \/ DirectGet(c)
        \/ DirectProgress(c)

\* The runtime polls every task that can go on: a call that has begun and
\* is not waiting for a guard takes its next step.
AnalyticsSpec ==
    /\ DirectInit
    /\ [][DirectNext]_vars
    /\ \A c \in Callers : WF_vars(DirectProgress(c))


\* ----------------------------------------------------------------- claims
Min(a, b) == IF a < b THEN a ELSE b

LastN(s, n) == SubSeq(s, Len(s) - n + 1, Len(s))

\* The calls of execute_bundle that returned Ok(bundle_result).
ReturnedIds == { id \in DOMAIN calls : calls[id].outcome = "returned" }

ResultOf(id) == calls[id].result[1]

\* C1: every BundleResult returned by execute_bundle has total_transactions
\* equal to the number of wallets of its config and a success_count between
\* 0 and total_transactions.
C1_ResultCounts ==
    \A id \in ReturnedIds :
        /\ ResultOf(id).total_transactions = Len(calls[id].config.wallets)
        /\ 0 <= ResultOf(id).success_count
        /\ ResultOf(id).success_count <= ResultOf(id).total_transactions

\* A returned result with one success and one failure.
C1_Witness ==
    \E id \in ReturnedIds :
        /\ ResultOf(id).total_transactions = 2
        /\ ResultOf(id).success_count = 1

\* C2: the transactions of a returned result are one per wallet of the
\* config, total_transactions many, and the i-th is the result of the i-th
\* operation attempted.
C2_TransactionsInAttemptedOrder ==
    \A id \in ReturnedIds :
        LET txs == ResultOf(id).transactions
            att == calls[id].attempted
        IN  /\ Len(txs) = ResultOf(id).total_transactions
            /\ Len(txs) = Len(att)
            /\ \A i \in 1..Len(txs) :
                  /\ txs[i].wallet = att[i].wallet
                  /\ (txs[i].status = "confirmed") = att[i].ok
            /\ [i \in 1..Len(txs) |-> txs[i].wallet] \in Shuffles(calls[id].config.wallets)

\* A returned result whose two transactions are in the shuffled order, not
\* in the order of the request, the first failed and the second confirmed.
C2_Witness ==
    \E id \in ReturnedIds :
        LET txs == ResultOf(id).transactions
        IN  /\ Len(txs) = 2
            /\ txs[1].wallet = calls[id].config.wallets[2]
            /\ txs[2].wallet = calls[id].config.wallets[1]
            /\ txs[1].status = "failed"
            /\ txs[2].status = "confirmed"

\* What bundle_history holds after the first n commits: the last
\* min(n, HistoryCap) committed ids, in commit order.
HistoryAfter(n) == LastN(SubSeq(committed, 1, n), Min(n, HistoryCap))

\* C3: whatever the interleaving of commits and get_bundle_history, a
\* reader's clone never has more than HistoryCap entries and is always the
\* history as it stood after some whole commit (pushed and evicted); with
\* no writer inside, bundle_history itself is within capacity.
C3_ReadersSeeWholeCommits ==
    /\ \A r \in Readers :
          reader[r].pc = "cloned" =>
             /\ Len(reader[r].snapshot) <= HistoryCap
             /\ \E n \in 0..Len(committed) :
                   BundleIds(reader[r].snapshot) = HistoryAfter(n)
    /\ history_lock.writer = 0 => Len(bundle_history) <= HistoryCap

\* A reader holds the read guard and a clone of a full history while a
\* handler task waits for the write guard to commit the result that will
\* overflow it.
C3_Witness ==
    \E r \in Readers, t \in Tasks :
        /\ reader[r].pc = "cloned"
        /\ Len(reader[r].snapshot) = HistoryCap
        /\ Len(bundle_history) = HistoryCap
        /\ local[t].pc = "history_lock"

\* C4: eviction is FIFO by commit order: outside a commit, bundle_history
\* is the last min(n, HistoryCap) of the n results committed so far, in
\* commit order; after HistoryCap + 1 commits it has HistoryCap entries and
\* not the first-committed id.
C4_FifoByCommitOrder ==
    history_lock.writer = 0 =>
        /\ BundleIds(bundle_history) = HistoryAfter(Len(committed))
        /\ \A i \in 1..Len(bundle_history) :
              LET id == bundle_history[i].bundle_id
              IN  IF id \in ReturnedIds
                  THEN bundle_history[i] = ResultOf(id)
                  ELSE \E t \in Tasks : /\ local[t].bundle_id = id
                                        /\ local[t].bundle_result = <<bundle_history[i]>>
        /\ Len(committed) = HistoryCap + 1 =>
              /\ Len(bundle_history) = HistoryCap
              /\ \A i \in 1..Len(bundle_history) :
                    bundle_history[i].bundle_id # committed[1]

\* HistoryCap + 1 results have been committed and the commit is over.
C4_Witness ==
    /\ history_lock.writer = 0
    /\ Len(committed) = HistoryCap + 1
    /\ Len(bundle_history) = HistoryCap


\* C5: a config whose wallet list is empty or longer than WalletLimit is
\* rejected before execute_bundle registers anything or attempts an
\* operation, and the rejection leaves active_bundles and bundle_history
\* unchanged.
C5_NoInvalidCountPastHandler ==
    /\ \A t \in Tasks :
          LET n == Len(local[t].config.wallets)
          IN  (local[t].pc # "idle" /\ (n = 0 \/ n > WalletLimit)) =>
                 (local[t].pc = "rejected" /\ local[t].bundle_id = 0)
    /\ \A id \in DOMAIN calls :
          /\ Len(calls[id].config.wallets) >= 1
          /\ Len(calls[id].config.wallets) <= WalletLimit

C5_RejectionChangesNothing ==
    \A t \in Tasks :
        (local'[t] # local[t] /\ (local'[t].pc = "rejected" \/ local[t].pc = "rejected"))
           => UNCHANGED << active_bundles, bundle_history, analytics_history,
                           committed, calls, bundle_manager_lock >>

C6_NonPositiveAmountRejected ==
    \A id \in DOMAIN calls :
        calls[id].config.amount_per_wallet <= 0 =>
            /\ calls[id].inserts = 0
            /\ calls[id].attempted = << >>
            /\ \A i \in 1..Len(committed) : committed[i] # id

\* C7: every id execute_bundle inserts into active_bundles is inserted once
\* and removed once, and is no longer there when the call has ended,
\* however it ended.
C7_ActiveRemovedWhenCallEnds ==
    \A id \in DOMAIN calls :
        /\ calls[id].inserts <= 1
        /\ calls[id].removes <= 1
        /\ calls[id].outcome # "running" =>
              /\ calls[id].inserts = 1
              /\ calls[id].removes = 1
              /\ id \notin DOMAIN active_bundles

\* C8: a registered bundle never reaches a failed or stuck state: its call
\* is running or has returned, and when it has returned the result is
\* committed and the id is no longer active.
C8_RegisteredBundleFinalizes ==
    \A id \in DOMAIN calls :
        calls[id].inserts >= 1 =>
            /\ calls[id].outcome \in {"running", "returned"}
            /\ calls[id].outcome = "returned" =>
                  /\ \E i \in 1..Len(committed) : committed[i] = id
                  /\ id \notin DOMAIN active_bundles

\* C9: a failed operation never ends the loop: when a call has ended and
\* the last operation it attempted failed, that operation was the one for
\* the last position of the execution order (every later position was
\* attempted too).
C9_FailureNeverEndsTheLoop ==
    \A id \in DOMAIN calls :
        LET att == calls[id].attempted
        IN  (calls[id].outcome # "running" /\ att # << >> /\ ~att[Len(att)].ok) =>
               Len(att) = Len(calls[id].config.wallets)

Occurrences(s, x) == Cardinality({ i \in 1..Len(s) : s[i] = x })

\* C10: every finished bundle is appended to bundle_history exactly once:
\* no id occurs twice in bundle_history, and a returned id that is among
\* the last HistoryCap commits (not yet evicted) occurs exactly once.
C10_AppendedExactlyOnce ==
    /\ \A i, j \in 1..Len(bundle_history) :
          bundle_history[i].bundle_id = bundle_history[j].bundle_id => i = j
    /\ \A id \in ReturnedIds :
          /\ Occurrences(committed, id) = 1
          /\ Occurrences(LastN(committed, Min(Len(committed), HistoryCap)), id) = 1
                => Occurrences(BundleIds(bundle_history), id) = 1

\* More bundles have finished than the history holds: the oldest is gone
\* and the newest HistoryCap are there.
C10_Witness ==
    /\ Cardinality(ReturnedIds) > HistoryCap
    /\ Len(bundle_history) = HistoryCap
    /\ \A i \in 1..Len(bundle_history) : bundle_history[i].bundle_id \in ReturnedIds

\* A bundle is suspended when it sleeps a delay or awaits an operation.
Suspended(t) == local[t].pc \in {"mev_sleep", "operation", "stagger_sleep"}

\* C11: bundles submitted at the same time run concurrently: while one
\* bundle is suspended in a stagger delay, an MEV delay or an operation,
\* another submitted bundle can enter execute_bundle, register in
\* active_bundles and run its own operations.
C11_BundlesRunConcurrently ==
    \A t, u \in Tasks :
        (t # u /\ local[t].pc = "wait_manager" /\ Suspended(u)) =>
            ENABLED EnterExecuteBundle(t)

\* The exact mean of the execution times of the bundles of given ids.
MeanExecutionTime(ids) ==
    IF ids = << >> THEN Zero
    ELSE Ratio(Sum([i \in 1..Len(ids) |-> ResultOf(ids[i]).execution_time]), Len(ids))

C13_SameStateSameAnswer ==
    \A a \in Analysts :
        (/\ analyst[a].last # << >>
         /\ analyst[a].previous # << >>
         /\ analyst[a].last[1].started = analyst[a].previous[1].started)
            => analyst[a].last[1].data = analyst[a].previous[1].data

C13_SnapshotChangesNothing ==
    analyst' # analyst =>
        UNCHANGED << analytics_history, performance_metrics, records_started,
                     metrics_folded >>

\* C13: two calls of get_analytics_data with no record_bundle_execution
\* between them return the same AnalyticsData, field for field, and a call
\* leaves the analytics as it found them.
C13_SnapshotIdempotent ==
    [] C13_SameStateSameAnswer /\ [][C13_SnapshotChangesNothing]_vars

\* Two answers in a row with no record between them, over a history of two
\* bundles with different execution times.
C13_Witness ==
    \E a \in Analysts :
        /\ analyst[a].last # << >>
        /\ analyst[a].previous # << >>
        /\ analyst[a].last[1].started = analyst[a].previous[1].started
        /\ analyst[a].last[1].data.total_bundles = 2
        /\ analyst[a].last[1].data.average_execution_time = Ratio(20, 1)

\* ------------------------------------------------- claims about the loop
TraceOf(id) == calls[id].trace

\* The positions of the trace that hold an event of a kind.
EventsOf(tr, kind) == { k \in 1..Len(tr) : tr[k].kind = kind }

\* The lengths of the delays of a kind, in the order they were slept.
RECURSIVE DelaysIn(_, _)
DelaysIn(tr, kind) ==
    IF tr = << >> THEN << >>
    ELSE IF tr[1].kind = kind THEN <<tr[1].ms>> \o DelaysIn(Tail(tr), kind)
         ELSE DelaysIn(Tail(tr), kind)

\* A stagger delay is jittered: the whole part of the base delay times some
\* factor f of [0.5, 1.5), that is ms <= base_delay * f < ms + 1.
Jittered(ms, base_delay) ==
    IF base_delay = 0 THEN ms = 0
    ELSE 2 * ms < 3 * base_delay /\ 2 * (ms + 1) > base_delay

\* C14 as stated: the operation at index 0 is never preceded by a stagger
\* delay, and for every index > 0 a stagger delay is waited before the
\* operation, after the previous result: jittered when stealth_mode is on,
\* the base stagger_delay unmodified when it is off.
C14_StaggerBeforeEveryLaterOperation ==
    \A id \in DOMAIN calls :
        LET tr  == TraceOf(id)
            cfg == calls[id].config
        IN  \A k \in EventsOf(tr, "invoke") :
              IF tr[k].index = 0
              THEN \A j \in 1..(k - 1) : tr[j].kind # "stagger_delay"
              ELSE \E j \in 1..(k - 1) :
                     /\ tr[j].kind = "stagger_delay"
                     /\ tr[j].index = tr[k].index - 1
                     /\ IF cfg.stealth_mode THEN Jittered(tr[j].ms, cfg.stagger_delay)
                        ELSE tr[j].ms = cfg.stagger_delay

\* C14 (amended): the operation at index 0 is never preceded by a stagger
\* delay; with stealth_mode on, one jittered stagger delay is waited before
\* the operation of every index > 0, right after the previous result was
\* pushed; with stealth_mode off no stagger delay is waited at all.
C14_StaggerOnlyInStealthMode ==
    \A id \in DOMAIN calls :
        LET tr  == TraceOf(id)
            cfg == calls[id].config
        IN  /\ \A k \in EventsOf(tr, "invoke") :
                  Cardinality({ j \in EventsOf(tr, "stagger_delay") : j < k })
                     = IF cfg.stealth_mode THEN tr[k].index ELSE 0
            /\ \A j \in EventsOf(tr, "stagger_delay") :
                  /\ cfg.stealth_mode
                  /\ Jittered(tr[j].ms, cfg.stagger_delay)
                  /\ j > 1 /\ tr[j - 1] = Event("result", tr[j].index, 0)
                  /\ tr[j].index < Len(cfg.wallets) - 1

\* A stealth bundle has slept its one stagger delay, of the longest length,
\* and its second operation has been invoked.
C14_Witness ==
    \E id \in DOMAIN calls :
        /\ calls[id].config.stealth_mode
        /\ \E j, k \in DOMAIN TraceOf(id) :
              /\ j < k
              /\ TraceOf(id)[j] = Event("stagger_delay", 0, 149)
              /\ TraceOf(id)[k] = Event("invoke", 1, 0)

\* C15: with stealth_mode and mev_protection both on, every operation of
\* index > 0 is invoked right after its MEV delay, which was slept right
\* after the stagger delay, which was slept right after the previous result
\* was pushed: both are waited, one after the other.
C15_BothDelaysBeforeOperation ==
    \A id \in DOMAIN calls :
        LET tr  == TraceOf(id)
            cfg == calls[id].config
        IN  (cfg.stealth_mode /\ cfg.mev_protection) =>
               \A k \in EventsOf(tr, "invoke") :
                  tr[k].index > 0 =>
                     /\ k > 3
                     /\ tr[k - 1].kind = "mev_delay"
                     /\ tr[k - 1].index = tr[k].index
                     /\ tr[k - 1].ms > 0
                     /\ tr[k - 2].kind = "stagger_delay"
                     /\ tr[k - 2].index = tr[k].index - 1
                     /\ tr[k - 2].ms > 0
                     /\ tr[k - 3] = Event("result", tr[k].index - 1, 0)

\* A bundle with both settings on has invoked its second operation.
C15_Witness ==
    \E id \in DOMAIN calls :
        /\ calls[id].config.stealth_mode
        /\ calls[id].config.mev_protection
        /\ \E k \in EventsOf(TraceOf(id), "invoke") : TraceOf(id)[k].index = 1

\* C16: the operations of a bundle are strictly sequential: the executor is
\* invoked for position i only when the results of the positions before i,
\* and only those, have been pushed, in order; at most one operation of a
\* bundle is in flight.
C16_OneOperationAtATime ==
    /\ \A id \in DOMAIN calls :
          LET tr == TraceOf(id)
              inv == EventsOf(tr, "invoke")
              res == EventsOf(tr, "result")
          IN  /\ Cardinality(inv) - Cardinality(res) \in {0, 1}
              /\ \A k \in inv :
                    /\ Cardinality({ j \in inv : j < k }) = tr[k].index
                    /\ Cardinality({ j \in res : j < k }) = tr[k].index
                    /\ \A j \in res : j < k => tr[j].index < tr[k].index
    /\ \A t \in Tasks :
          local[t].pc = "operation" =>
             /\ Len(local[t].transactions) = local[t].index
             /\ \A i \in 1..Len(local[t].transactions) :
                   local[t].transactions[i].wallet = local[t].execution_order[i]

\* The second operation of a bundle is in flight and the result of the
\* first is in the list.
C16_Witness ==
    \E t \in Tasks :
        /\ local[t].pc = "operation"
        /\ local[t].index = 1
        /\ Len(local[t].transactions) = 1

\* The range of an anti-front-running delay, per kind, in milliseconds.
C17_Range(kind) ==
    CASE kind = "snipe"  -> 25..75
      [] kind = "volume" -> 50..150
      [] kind = "buy"    -> 100..300
      [] kind = "sell"   -> 150..400
      [] OTHER           -> 100..200

\* C17: an anti-front-running delay is slept before an operation exactly
\* when mev_protection is on; the delays are in anti_mev_delays in the order
\* they were slept, one per attempted operation at the end (none with
\* mev_protection off), each in the range of the bundle's kind.
C17_MevDelaysRecorded ==
    /\ \A id \in DOMAIN calls :
          LET tr  == TraceOf(id)
              cfg == calls[id].config
          IN  /\ \A k \in EventsOf(tr, "invoke") :
                    cfg.mev_protection <=>
                       (k > 1 /\ tr[k - 1].kind = "mev_delay"
                              /\ tr[k - 1].index = tr[k].index)
              /\ \A k \in EventsOf(tr, "mev_delay") :
                    /\ cfg.mev_protection
                    /\ tr[k].ms \in C17_Range(cfg.bundle_type)
                    /\ k < Len(tr) /\ tr[k + 1] = Event("invoke", tr[k].index, 0)
              /\ calls[id].metrics # << >> =>
                    /\ calls[id].metrics[1].anti_mev_delays = DelaysIn(tr, "mev_delay")
                    /\ Len(calls[id].metrics[1].anti_mev_delays)
                          = IF cfg.mev_protection THEN Len(calls[id].attempted) ELSE 0
    /\ \A t \in Tasks :
          local[t].pc \in {"loop_head", "operation", "stagger_sleep"} =>
             local[t].stealth_metrics.anti_mev_delays
                = DelaysIn(TraceOf(local[t].bundle_id), "mev_delay")

\* A snipe bundle has finished with the shortest and the longest delay of
\* its kind recorded, in that order.
C17_Witness ==
    \E id \in DOMAIN calls :
        /\ calls[id].config.bundle_type = "snipe"
        /\ calls[id].metrics # << >>
        /\ calls[id].metrics[1].anti_mev_delays = <<25, 74>>

WalletsOf(transactions) == [i \in 1..Len(transactions) |-> transactions[i].wallet]

\* C18: the wallets of a result's transactions are the config's wallets,
\* each as often as there, in any order when randomize_order was requested
\* and in the order of the request when not; randomization_applied is true
\* exactly when randomize_order was requested.
C18_OrderAndRandomizationFlag ==
    \A id \in ReturnedIds :
        LET cfg == calls[id].config
            ws  == WalletsOf(ResultOf(id).transactions)
        IN  /\ Len(ws) = Len(cfg.wallets)
            /\ \A i \in 1..Len(ws) :
                  Occurrences(ws, ws[i]) = Occurrences(cfg.wallets, ws[i])
            /\ ~cfg.randomize_order => ws = cfg.wallets
            /\ calls[id].metrics[1].randomization_applied = cfg.randomize_order
            /\ ResultOf(id).stealth_metrics # << >> =>
                  ResultOf(id).stealth_metrics[1].randomization_applied
                     = cfg.randomize_order

\* A result whose transactions are in the reverse of the requested order,
\* with randomization_applied reported.
C18_Witness ==
    \E id \in ReturnedIds :
        LET ws == WalletsOf(ResultOf(id).transactions)
        IN  /\ Len(ws) = 2
            /\ ws[1] = calls[id].config.wallets[2]
            /\ ws[2] = calls[id].config.wallets[1]
            /\ ws[1] # ws[2]
            /\ ResultOf(id).stealth_metrics # << >>
            /\ ResultOf(id).stealth_metrics[1].randomization_applied

\* C19: a BundleResult carries StealthMetrics exactly when stealth_mode was
\* requested, whatever the other settings.
C19_MetricsIffStealthMode ==
    \A id \in ReturnedIds :
        (ResultOf(id).stealth_metrics # << >>) <=> calls[id].config.stealth_mode

\* A result without StealthMetrics of a bundle that asked for everything but
\* stealth_mode.
C19_Witness ==
    \E id \in ReturnedIds :
        /\ ~calls[id].config.stealth_mode
        /\ calls[id].config.randomize_order
        /\ calls[id].config.use_multiple_rpcs
        /\ calls[id].config.mev_protection
        /\ ResultOf(id).stealth_metrics = << >>

\* The weighted sum of the stealth score.
C20_WeightedSum(stealth, mev, randomized, rpcs, timing, delayed) ==
      (IF stealth THEN 20 ELSE 0) + (IF mev THEN 25 ELSE 0)
    + (IF randomized THEN 15 ELSE 0) + (IF rpcs THEN 10 ELSE 0)
    + (IF timing THEN 15 ELSE 0) + (IF delayed THEN 15 ELSE 0)

\* calculate_stealth_score on every combination of its six terms.
C20_EveryCombination ==
    /\ \A st, mev, rnd, rpcs, tim \in BOOLEAN : \A delays \in {<< >>, <<100>>} :
          LET score == calculate_stealth_score(
                          [stealth_mode |-> st, mev_protection |-> mev],
                          [randomization_applied |-> rnd, multiple_rpcs_used |-> rpcs,
                           timing_randomized |-> tim, anti_mev_delays |-> delays])
          IN  /\ score \in 0..100
              /\ score = C20_WeightedSum(st, mev, rnd, rpcs, tim, delays # << >>)
    /\ calculate_stealth_score(
          [stealth_mode |-> TRUE, mev_protection |-> TRUE],
          [randomization_applied |-> TRUE, multiple_rpcs_used |-> FALSE,
           timing_randomized |-> FALSE, anti_mev_delays |-> << >>]) = 60

\* C20: the stealth_score of a bundle is in 0..100 and is the weighted sum
\* of its settings and metrics; so is calculate_stealth_score for every
\* combination of the six terms, e.g. 60 for stealth_mode, mev_protection
\* and randomization_applied alone.
C20_ScoreIsWeightedSum ==
    /\ \A id \in DOMAIN calls :
          calls[id].metrics # << >> =>
             LET cfg == calls[id].config
                 m   == calls[id].metrics[1]
             IN  /\ m.stealth_score \in 0..100
                 /\ m.stealth_score =
                       C20_WeightedSum(cfg.stealth_mode, cfg.mev_protection,
                                       m.randomization_applied, m.multiple_rpcs_used,
                                       m.timing_randomized, m.anti_mev_delays # << >>)
                 /\ calls[id].outcome = "returned" /\ cfg.stealth_mode =>
                       ResultOf(id).stealth_metrics[1].stealth_score = m.stealth_score
    /\ C20_EveryCombination

\* A bundle with every setting on has returned with the full score.
C20_Witness ==
    \E id \in ReturnedIds :
        /\ calls[id].config.stealth_mode
        /\ calls[id].config.mev_protection
        /\ calls[id].config.randomize_order
        /\ calls[id].config.use_multiple_rpcs
        /\ ResultOf(id).stealth_metrics[1].stealth_score = 100

\* ------------------------------------------ claims about costs and results
\* amount + fee summed over the confirmed transactions of a list.
ConfirmedCost(transactions) ==
    Sum([i \in 1..Len(transactions) |->
            IF transactions[i].status = "confirmed"
            THEN transactions[i].amount + transactions[i].fee ELSE 0])

\* C21: total_cost of a BundleResult is the sum of amount + fee over those
\* of its transactions whose status is confirmed; a failed transaction,
\* which still carries the requested amount, adds nothing.  The same holds
\* of the running total while the loop is at work.
C21_TotalCostOverConfirmed ==
    /\ \A id \in ReturnedIds :
          ResultOf(id).total_cost = ConfirmedCost(ResultOf(id).transactions)
    /\ \A t \in Tasks :
          local[t].pc \in {"loop_head", "operation", "stagger_sleep", "mev_sleep"} =>
             local[t].total_cost = ConfirmedCost(local[t].transactions)

\* A snipe bundle returned with one confirmed transaction (amount 1, fee 3)
\* and one failed transaction that carries the requested amount.
C21_Witness ==
    \E id \in ReturnedIds :
        LET txs == ResultOf(id).transactions
        IN  /\ Len(txs) = 2
            /\ txs[1].status = "failed" /\ txs[1].amount = 1
            /\ txs[2].status = "confirmed" /\ txs[2].fee = 3
            /\ ResultOf(id).total_cost = 4

\* C22: with mev_protection on, what the executor is handed for each wallet
\* has been through the sandwich mitigation first: the slippage raised by a
\* fifth (at most 50), the amount trimmed by a factor of [0.95, 1.0), so at
\* most the requested amount.
C22_SandwichMitigationBeforeExecutor ==
    \A id \in DOMAIN calls :
        calls[id].config.mev_protection =>
            \A k \in 1..Len(calls[id].received) :
                /\ calls[id].received[k]
                      \in apply_sandwich_protection(ExecutorParams(calls[id].config))
                /\ calls[id].received[k].amount[1]
                      <= calls[id].config.amount_per_wallet * calls[id].received[k].amount[2]

\* C23: a bundle whose kind is none of buy, sell, distribute, volume, snipe
\* and pump is refused at validation: it is never inserted into
\* active_bundles, no operation is attempted for it, nothing of it is
\* committed and no transaction of it is ever recorded as confirmed.
C23_UnknownKindRejected ==
    /\ \A id \in DOMAIN calls :
          calls[id].config.bundle_type \notin KnownTypes =>
              /\ calls[id].inserts = 0
              /\ calls[id].attempted = << >>
              /\ \A i \in 1..Len(committed) : committed[i] # id
    /\ \A t \in Tasks :
          local[t].config.bundle_type \notin KnownTypes \cup {""} =>
              \A i \in 1..Len(local[t].transactions) :
                  local[t].transactions[i].status # "confirmed"

\* C24: whatever popularity and congestion update_network_stats has stored,
\* and for every asset and amount, the risk score detect_frontrunning_risk
\* returns is in [0, 1].
C24_RiskScoreInUnitInterval ==
    \A i \in 1..Len(risk_scores) :
        /\ RatioLeq(Zero, risk_scores[i].risk_score)
        /\ RatioLeq(risk_scores[i].risk_score, Ratio(1, 1))

\* ms is floor(base_delay * f) for some factor f of [0.5, 1.5]:
\* ms <= base_delay * f < ms + 1.
FloorOfJitter(ms, base_delay) ==
    IF base_delay = 0 THEN ms = 0
    ELSE 2 * ms <= 3 * base_delay /\ 2 * (ms + 1) > base_delay

\* C25 as stated: with stealth_mode on, every stagger delay waited is
\* floor(base * f) for a factor f of [0.5, 1.5] and hence lies between half
\* the base stagger delay and one and a half times it, whatever the base.
C25_StaggerBetweenHalfAndThreeHalves ==
    \A id \in DOMAIN calls :
        calls[id].config.stealth_mode =>
            \A k \in EventsOf(TraceOf(id), "stagger_delay") :
                LET ms   == TraceOf(id)[k].ms
                    base == calls[id].config.stagger_delay
                IN  /\ FloorOfJitter(ms, base)
                    /\ base <= 2 * ms
                    /\ 2 * ms <= 3 * base

\* C25 (amended): with stealth_mode on, every stagger delay waited is
\* floor(base * f) for a factor f of [0.5, 1.5] and hence lies between the
\* whole part of half the base stagger delay and one and a half times the
\* base, whatever the base.
C25_StaggerIsFloorOfJitteredBase ==
    \A id \in DOMAIN calls :
        calls[id].config.stealth_mode =>
            \A k \in EventsOf(TraceOf(id), "stagger_delay") :
                LET ms   == TraceOf(id)[k].ms
                    base == calls[id].config.stagger_delay
                IN  /\ FloorOfJitter(ms, base)
                    /\ base \div 2 <= ms
                    /\ 2 * ms <= 3 * base

\* A stealth bundle with a base stagger delay of 3 ms has slept 1 ms, the
\* whole part of 1.5 ms, between its two operations.
C25_Witness ==
    \E id \in ReturnedIds :
        /\ calls[id].config.stealth_mode
        /\ calls[id].config.stagger_delay = 3
        /\ \E k \in EventsOf(TraceOf(id), "stagger_delay") : TraceOf(id)[k].ms = 1

\* C26: every TransactionResult of a returned BundleResult is terminal:
\* confirmed exactly when its operation succeeded, then with a signature and
\* no error; failed exactly when the operation returned an error, then
\* without a signature, with an error, a fee of 0 and the requested
\* amount_per_wallet as amount; none is pending.
C26_TerminalStatus ==
    \A id \in ReturnedIds :
        LET txs == ResultOf(id).transactions
            att == calls[id].attempted
        IN  /\ Len(txs) = Len(att)
            /\ \A i \in 1..Len(txs) :
                  /\ txs[i].status \in {"confirmed", "failed"}
                  /\ att[i].ok =>
                        /\ txs[i].status = "confirmed"
                        /\ txs[i].signature # None
                        /\ txs[i].error = None
                  /\ ~att[i].ok =>
                        /\ txs[i].status = "failed"
                        /\ txs[i].signature = None
                        /\ txs[i].error # None
                        /\ txs[i].fee = 0
                        /\ txs[i].amount = calls[id].config.amount_per_wallet

\* A returned result of a positive amount whose first operation succeeded
\* and whose second failed.
C26_Witness ==
    \E id \in ReturnedIds :
        /\ calls[id].config.amount_per_wallet > 0
        /\ Len(calls[id].attempted) = 2
        /\ calls[id].attempted[1].ok
        /\ ~calls[id].attempted[2].ok
        /\ ResultOf(id).transactions[2].status = "failed"

\* C27: the fee recorded for a confirmed operation is three times the
\* configured priority fee for a snipe and the priority fee itself for every
\* other kind; the amount recorded is the configured amount_per_wallet.
C27_RecordedFeeAndAmount ==
    \A id \in ReturnedIds :
        LET txs == ResultOf(id).transactions
            cfg == calls[id].config
        IN  \A i \in 1..Len(txs) :
              txs[i].status = "confirmed" =>
                 /\ txs[i].fee = IF cfg.bundle_type = "snipe"
                                 THEN 3 * cfg.priority_fee ELSE cfg.priority_fee
                 /\ txs[i].amount = cfg.amount_per_wallet

\* A snipe with a priority fee of 2 has returned with a confirmed operation
\* whose fee is 6 and whose amount is the requested 1.
C27_Witness ==
    \E id \in ReturnedIds :
        /\ calls[id].config.bundle_type = "snipe"
        /\ calls[id].config.priority_fee = HigherFee
        /\ \E i \in 1..Len(ResultOf(id).transactions) :
              /\ ResultOf(id).transactions[i].status = "confirmed"
              /\ ResultOf(id).transactions[i].fee = 6
              /\ ResultOf(id).transactions[i].amount = 1

\* C28: when the config has an anti_mev_delay and mev_protection is on, the
\* delay slept before each operation, and recorded in anti_mev_delays, is
\* that override and not the draw of the kind.
C28_OverrideReplacesDraw ==
    \A id \in DOMAIN calls :
        LET cfg == calls[id].config
        IN  (cfg.mev_protection /\ cfg.anti_mev_delay # << >>) =>
               /\ \A k \in EventsOf(TraceOf(id), "mev_delay") :
                     TraceOf(id)[k].ms = cfg.anti_mev_delay[1]
               /\ calls[id].metrics # << >> =>
                     \A i \in 1..Len(calls[id].metrics[1].anti_mev_delays) :
                        calls[id].metrics[1].anti_mev_delays[i] = cfg.anti_mev_delay[1]

\* ------------------------------------------- claims about the analytics
\* The sum of the values of a map of counts.
RECURSIVE SumOfCounts(_)
SumOfCounts(map) ==
    IF DOMAIN map = {} THEN 0
    ELSE LET key == CHOOSE k \in DOMAIN map : TRUE
         IN  map[key] + SumOfCounts([k \in (DOMAIN map) \ {key} |-> map[k]])

\* The answers the analytics clients hold.
Answers ==
    { analyst[a].last[1] : a \in { b \in Analysts : analyst[b].last # << >> } }

\* C29: in every answer of get_analytics_data, successful_transactions is
\* the sum of success_count and failed_transactions the sum of
\* total_transactions - success_count over the bundles of the analytics
\* history; the two add up to the operations of those bundles and failed
\* is never negative; success_rate is 100 * successful / total, and 0 when
\* there is no operation; the counts of popular_bundle_types add up to
\* total_bundles.
C29_CountsOverHistory ==
    \A answer \in Answers :
        LET ids       == answer.counted
            successes == Sum([i \in 1..Len(ids) |-> ResultOf(ids[i]).success_count])
            failures  == Sum([i \in 1..Len(ids) |->
                                ResultOf(ids[i]).total_transactions
                                   - ResultOf(ids[i]).success_count])
            total     == Sum([i \in 1..Len(ids) |-> ResultOf(ids[i]).total_transactions])
            data      == answer.data
        IN  /\ data.successful_transactions = successes
            /\ data.failed_transactions = failures
            /\ data.failed_transactions >= 0
            /\ data.successful_transactions + data.failed_transactions = total
            /\ data.success_rate
                  = IF total = 0 THEN Zero ELSE Ratio(100 * successes, total)
            /\ SumOfCounts(data.popular_bundle_types) = data.total_bundles
            /\ data.total_bundles = Len(ids)

\* An answer over two bundles of different kinds, one whose only operation
\* failed and one whose only operation succeeded: a success rate of 50.
C29_Witness ==
    \E answer \in Answers :
        /\ answer.data.successful_transactions = 1
        /\ answer.data.failed_transactions = 1
        /\ answer.data.success_rate = Ratio(50, 1)
        /\ Cardinality(DOMAIN answer.data.popular_bundle_types) = 2

\* C30: in every answer of get_analytics_data, whatever was recorded before
\* it and however (one after the other or at once, within or beyond the
\* capacity of the history), average_execution_time is the arithmetic mean
\* of execution_time over the bundles then in the analytics history.
C30_AverageIsMeanOfHistory ==
    \A answer \in Answers :
        answer.data.average_execution_time = MeanExecutionTime(answer.counted)

\* The ids of the bundles an answer was computed over.
IdsOf(answer) == { answer.counted[i] : i \in 1..Len(answer.counted) }

\* C31 as stated: in the stealth usage summary bundles_with_stealth is the
\* number of bundles of the history with StealthMetrics, randomization_usage
\* the number of bundles of the history executed with order randomization,
\* multi_rpc_usage the number executed with multiple network paths.
C31_UsageCountsOverHistory ==
    \A answer \in Answers :
        LET usage == answer.data.stealth_usage
            ids   == IdsOf(answer)
        IN  /\ usage.bundles_with_stealth
                  = Cardinality({ id \in ids : ResultOf(id).stealth_metrics # << >> })
            /\ usage.randomization_usage
                  = Cardinality({ id \in ids : calls[id].metrics[1].randomization_applied })
            /\ usage.multi_rpc_usage
                  = Cardinality({ id \in ids : calls[id].metrics[1].multiple_rpcs_used })

\* C31 (amended): bundles_with_stealth is the number of bundles of the
\* history with StealthMetrics; randomization_usage and multi_rpc_usage are
\* the numbers of those bundles, the ones with StealthMetrics, that were
\* executed with order randomization and with multiple network paths.
C31_UsageCountsOverStealthBundles ==
    \A answer \in Answers :
        LET usage   == answer.data.stealth_usage
            stealth == { id \in IdsOf(answer) : ResultOf(id).stealth_metrics # << >> }
        IN  /\ usage.bundles_with_stealth = Cardinality(stealth)
            /\ \A id \in stealth : calls[id].config.stealth_mode
            /\ usage.randomization_usage
                  = Cardinality({ id \in stealth : calls[id].metrics[1].randomization_applied })
            /\ usage.multi_rpc_usage
                  = Cardinality({ id \in stealth : calls[id].metrics[1].multiple_rpcs_used })

\* An answer over two randomized bundles, one with stealth_mode and one
\* without: one bundle with stealth, one use of randomization.
C31_Witness ==
    \E answer \in Answers :
        /\ Cardinality({ id \in IdsOf(answer) : calls[id].config.randomize_order }) = 2
        /\ answer.data.stealth_usage.bundles_with_stealth = 1
        /\ answer.data.stealth_usage.randomization_usage = 1

\* ------------------------------------- claims about the sandwich mitigation
\* adjusted is amount times some factor of [0.95, 1.0).
Shrunk(amount, adjusted) ==
    LET least == RatioMul(Ratio(95, 100), amount)
    IN  IF amount = Zero THEN adjusted = Zero
        ELSE IF RatioLeq(Zero, amount)
             THEN RatioLeq(least, adjusted) /\ RatioLeq(adjusted, amount)
                     /\ adjusted # amount
             ELSE RatioLeq(adjusted, least) /\ RatioLeq(amount, adjusted)
                     /\ adjusted # amount

\* What a call with the flag on computes: slippage is
\* min(1.2 * slippage, 50), hence never above 50, and amount is amount times
\* a factor of [0.95, 1.0).
C32_Adjusted(params, adjusted) ==
    /\ adjusted.slippage
          = RatioMin(RatioMul(Ratio(12, 10), params.slippage), Ratio(50, 1))
    /\ RatioLeq(adjusted.slippage, Ratio(50, 1))
    /\ Shrunk(params.amount, adjusted.amount)

\* C32 as stated: with sandwich protection on, apply_sandwich_protection
\* sets slippage to min(1.2 * slippage, 50) and multiplies amount by a
\* factor of [0.95, 1.0), so that slippage is never lowered and never above
\* 50 and amount never grows; with it off every parameter is left as it was.
C32_SlippageNeverLowered ==
    \A i \in 1..Len(sandwich_calls) :
        LET call == sandwich_calls[i]
        IN  IF call.enabled
            THEN /\ C32_Adjusted(call.params, call.adjusted)
                 /\ RatioLeq(call.params.slippage, call.adjusted.slippage)
                 /\ RatioLeq(call.adjusted.amount, call.params.amount)
            ELSE call.adjusted = call.params

\* C32 (amended): as stated, except that it is a slippage between 0 and 50
\* that is never lowered, and an amount of 0 or more that never grows.
C32_SlippageRaisedUpToCap ==
    \A i \in 1..Len(sandwich_calls) :
        LET call == sandwich_calls[i]
        IN  IF call.enabled
            THEN /\ C32_Adjusted(call.params, call.adjusted)
                 /\ (RatioLeq(Zero, call.params.slippage)
                        /\ RatioLeq(call.params.slippage, Ratio(50, 1)))
                      => RatioLeq(call.params.slippage, call.adjusted.slippage)
                 /\ RatioLeq(Zero, call.params.amount)
                      => RatioLeq(call.adjusted.amount, call.params.amount)
            ELSE call.adjusted = call.params

\* A call with the protection on has been handed a slippage of 80 and an
\* amount of 20, and has left a slippage of 50 and an amount of 19.
C32_Witness ==
    \E i \in 1..Len(sandwich_calls) :
        /\ sandwich_calls[i].enabled
        /\ sandwich_calls[i].params.slippage = Ratio(80, 1)
        /\ sandwich_calls[i].params.amount = Ratio(20, 1)
        /\ sandwich_calls[i].adjusted.slippage = Ratio(50, 1)
        /\ sandwich_calls[i].adjusted.amount = Ratio(19, 1)

\* --------------------------------- claims about the BundleManager of bundle.rs
\* C33: a call of the execute_bundle of bundle.rs with no wallet or with an
\* amount_per_wallet of 0 or less returns an error, has attempted no
\* operation and leaves the bundles map as it was before the call.
C33_RejectedCallLeavesStore ==
    \A i \in 1..Len(variant_calls) :
        LET call == variant_calls[i]
        IN  (Len(call.request.wallets) = 0 \/ call.request.amount_per_wallet <= 0)
                => /\ call.ended = "error"
                   /\ call.attempted = 0
                   /\ bundles = call.before

\* A call for one wallet and an amount below 0 has been rejected while the
\* map held a result.
C33_Witness ==
    \E i \in 1..Len(variant_calls) :
        /\ variant_calls[i].request.amount_per_wallet < 0
        /\ variant_calls[i].request.wallets # << >>
        /\ variant_calls[i].ended = "error"
        /\ DOMAIN bundles # {}
        /\ bundles = variant_calls[i].before

\* The ids of the results execute_bundle has returned.
ProducedIds == { r.bundle_id : r \in variant_returned }

\* C34: for every result r the execute_bundle of bundle.rs has returned,
\* get_bundle(r.bundle_id) is r and every vector get_all_bundles may return
\* has r at exactly one position; get_bundle of an id no returned result
\* carries is none.
C34_StoredUnderItsId ==
    /\ \A r \in variant_returned :
          /\ get_bundle(bundles, r.bundle_id) = <<r>>
          /\ \A all \in get_all_bundles(bundles) :
                Cardinality({ i \in 1..Len(all) : all[i] = r }) = 1
    /\ \A id \in (0..(MaxBundles + 1)) \ ProducedIds :
          get_bundle(bundles, id) = << >>

\* Two calls have returned a result and one, which had drawn an id, has not.
C34_Witness ==
    /\ Cardinality(variant_returned) = 2
    /\ next_uuid = 4
    /\ \E r \in variant_returned : r.bundle_id = 3 /\ r.success_count = 1

\* C35: the bundles map of bundle.rs holds at most 1000 (here HistoryCap)
\* BundleResults after any number of execute_bundle calls.
C35_StoreBounded ==
    Cardinality(DOMAIN bundles) <= HistoryCap

\* ------------------------------- claims about the Analytics called directly
\* C36: with fair queueing locks, every call of record_bundle_execution and
\* of get_analytics_data on one Analytics value eventually returns, however
\* the calls interleave.
C36_EveryCallReturns ==
    \A c \in Callers : (caller[c].pc # "idle") ~> (caller[c].pc = "idle")

\* ------------------------------------ claims about the life of a bundle id
\* The calls of execute_bundle that have registered their bundle and have
\* not returned.
RegisteredIds ==
    { id \in DOMAIN calls : calls[id].inserts > 0 /\ calls[id].outcome # "returned" }

\* C37: from the registration of a bundle until its execute_bundle call
\* returns, its id is in active_bundles or its result is in bundle_history.
C37_ActiveOrCommitted ==
    \A id \in RegisteredIds :
        \/ id \in DOMAIN active_bundles
        \/ \E i \in 1..Len(bundle_history) : bundle_history[i].bundle_id = id

\* A call has committed its result to a history that was full and has not
\* yet removed its marker: the bundle is in both places.
C37_Witness ==
    \E id \in RegisteredIds :
        /\ id \in DOMAIN active_bundles
        /\ Len(bundle_history) = HistoryCap
        /\ bundle_history[HistoryCap].bundle_id = id
        /\ Len(committed) > HistoryCap

\* No handler is between receiving a request and answering it.
NoHandlerRunning == \A t \in Tasks : local[t].pc = "idle"

\* C38: whenever no handler is running, the analytics history and the
\* history of the BundleManager hold the same bundle ids in the same order.
C38_HistoriesAgree ==
    NoHandlerRunning => BundleIds(analytics_history) = BundleIds(bundle_history)

\* No handler is running after more bundles were committed than the
\* histories hold: both histories are full and start with the second
\* bundle committed.
C38_Witness ==
    /\ NoHandlerRunning
    /\ Len(committed) > HistoryCap
    /\ Len(analytics_history) = HistoryCap
    /\ analytics_history[1].bundle_id = committed[2]
    /\ bundle_history[1].bundle_id = committed[2]

\* C39: a call of execute_bundle over a wallet identifier of fewer than 8
\* characters is not aborted by its log lines: once it has ended, it has
\* returned, an operation was attempted for every wallet, the result is
\* committed and the id is no longer active.
C39_ShortIdentifierNeverAborts ==
    \A id \in DOMAIN calls :
        LET wallets == calls[id].config.wallets
        IN  ( /\ calls[id].outcome # "running"
              /\ \E i \in 1..Len(wallets) : Len(wallets[i]) < 8 ) =>
                /\ calls[id].outcome = "returned"
                /\ Len(calls[id].attempted) = Len(wallets)
                /\ \E i \in 1..Len(committed) : committed[i] = id
                /\ id \notin DOMAIN active_bundles

\* The results of the last kept of the bundles recorded, oldest first.
LastRecorded(recorded, kept) ==
    [i \in 1..kept |-> ResultOf(LastN(recorded, kept)[i])]

\* C40: the analytics history never holds more than 1000 (here HistoryCap)
\* bundles, and an answer of get_analytics_data given after n calls of
\* record_bundle_execution reports total_bundles = min(n, HistoryCap) and
\* the counts, the volume and the summaries (every field but the average
\* execution time, which is read from the metrics) of exactly the last
\* min(n, HistoryCap) bundles recorded.
C40_OverLastRecorded ==
    /\ Len(analytics_history) <= HistoryCap
    /\ \A answer \in Answers :
          LET n    == answer.started
              kept == Min(n, HistoryCap)
          IN  /\ Len(answer.folded) = n
              /\ answer.data.total_bundles = kept
              /\ answer.counted = LastN(answer.folded, kept)
              /\ [answer.data EXCEPT !.average_execution_time = Zero]
                    = get_analytics_data(LastRecorded(answer.folded, kept), EmptyMap)

\* An answer given after one more record than the history holds: it counts
\* HistoryCap bundles, the first recorded not among them.
C40_Witness ==
    \E answer \in Answers :
        /\ answer.started = HistoryCap + 1
        /\ answer.data.total_bundles = HistoryCap
        /\ answer.folded[1] \notin IdsOf(answer)

=============================================================================
